---- MODULE Spec2Model ----
(***************************************************************************)
(* Model of the debugger-core package: the two protocol clients            *)
(* (dap_client.py, cdp_client.py), the stop/terminate race of protocol.py, *)
(* and the session orchestrator's use of them (session.py, daemon.py).      *)
(*                                                                         *)
(* The client is modelled at the granularity of asyncio's cooperative      *)
(* scheduling: a coroutine runs without interruption from one `await` that  *)
(* can suspend to the next, so every action below is the code between two   *)
(* suspension points.  The reader task handles one framed message per       *)
(* step (on_event is never installed, so its handlers do not suspend).      *)
(***************************************************************************)
EXTENDS Integers, Sequences, FiniteSets, TLC

\* ---------------------------------------------------------------- bounds
NumTasks == 2       \* concurrent command coroutines (daemon connections)
MaxReq == 2         \* requests the commands may send after the launch
MaxGen == 2         \* resume/step calls (one fresh signal pair each)
MaxChan == 2        \* messages buffered on the backend -> client stream
MaxStray == 1       \* ill-formed messages (duplicate / unknown id, repeated event)
MaxLine == 2        \* line numbers of the one source file breakpoints are set in
MaxBpCalls == 3     \* add_breakpoint calls
MaxClients == 3     \* client objects one session creates
MaxConn == 3        \* TCP connections the daemon accepts
MaxRef == 4         \* variable references the CDP client mints

Tasks == 1..NumTasks
\* Ids of the launch handshake (3 for CDP, 2 for DAP), of the commands, and of
\* DAPClient.disconnect's own request.
Ids == 1..(3 + MaxReq + 1)
Gens == 1..MaxGen
Lines == 1..MaxLine

VARIABLES
    kind,              \* "dap" (DAPClient) or "cdp" (CDPClient)
    phase,             \* "new" | "started" | "launching" | "ready" | "failed" | "gone":
                       \* constructed, start() done, inside launch(), launched,
                       \* launch() has raised, disconnected
    seq,               \* self._seq / self._msg_id: next request id
    pending,           \* keys of self._pending; the slot of id i is fut[i]
    fut,               \* the future created by _request/_send for each id
    stopped_event,     \* 0 (None) or the generation of the installed future
    terminated_event,  \* 0 (None) or the generation of the installed future
    stopFut,           \* the stop-signal future of each generation
    termFut,           \* the terminate-signal future of each generation
    initFut,           \* self._initialized_event (DAP)
    configured,        \* self._configured (DAP)
    launchId,          \* request id awaited by self._launch_task (0: none)
    nextGen,           \* generations handed out so far + 1
    reader,            \* reader task: "none" | "running" | "ended" | "cancelled"
    pc, op, rid, gen, myStop, myTerm, out,   \* per command coroutine
    disc,              \* position of disconnect(): "no" | ... | "done" | "raised"
    discRid,           \* id of disconnect()'s own request (DAP)
    wire,              \* requests written by the client, not yet answered
    reqGen,            \* generation of the resume/step that sent each request
    chan,              \* backend -> client stream (FIFO)
    alive,             \* the backend process / socket is up
    running,           \* 0: debuggee paused; g: set running by resume g; -1: exited
    breakpoints,       \* DebugSession._breakpoints[file]: the recorded lines
    breakpoint_ids,    \* CDPClient._breakpoint_ids[file]
    installed,         \* breakpoints the backend holds for the file: [id, line]
    bpPc,              \* add_breakpoint: "idle" | "remove" | "set" | "dap"
    bpI,               \* index of the loop of CDPClient.set_breakpoints
    bpOld,             \* the id list its remove loop iterates over
    results,           \* its `results`: the verified flag per line
    bpOut,             \* what the last add_breakpoint returned
    bpCalls,           \* add_breakpoint calls made
    bpCall,            \* history: the running (or last) add_breakpoint call
    client,            \* DebugSession._client: 0 (None) or the client object
    process,           \* per client object: "none" | "running" | "exited" | "killed"
    ckind,             \* per client object: "none" | "dap" | "cdp"
    language,          \* DebugSession._language ("none": None)
    nClients,          \* client objects created so far
    sPc,               \* position of the running session command
    sCmd,              \* the running (or last) command
    sRet,              \* what it returned: "none" | "ok" | "error" | "noactive" | "raise"
    sFail,             \* probe: a step after start has failed
    termDue,           \* disconnect: the process ran when returncode was read
    sBefore,           \* history: _client when the command began
    made,              \* history: client objects the command has created
    reported,          \* history: a resume/step has returned the terminated body
    last_stack_frames, \* CDPClient._last_stack_frames: -1 empty, else the pause they
                       \* were cached from (0: the launch's first pause, g: the
                       \* pause resume/step g caused)
    described,         \* per resume/step call: what _describe_stop has made of its result
    began,             \* history, per command: what had happened when it began
    conn,              \* per connection: "none" | "read" | "dispatch" | "closed"
    req,               \* per connection: what readline() gave ("none": not read)
    replies,           \* per connection: the reply lines written
    raised,            \* history, per connection: its handler has raised
    shutdown_event,    \* SessionDaemon.shutdown_event is set
    serving,           \* the TCP server accepts connections
    main,              \* start_and_serve: "start" | "bind" | "serve" | "closing" | "stop" | "exited"
    started,           \* history: how session.start ended ("none": not yet)
    stdout,            \* the lines the daemon has printed: "ready" / "error"
    stops,             \* calls of session.stop() by start_and_serve
    exitCode,          \* -1: the process runs; else its exit status
    waits,             \* Server.wait_closed() waits for the open connections
    next_var_ref,      \* CDPClient._next_var_ref
    object_ids,        \* CDPClient._object_ids: reference -> objectId ("none": no entry)
    last_call_frames,  \* CDPClient._last_call_frames
    last_dap_frames,   \* CDPClient._last_stack_frames, frame by frame
    lastBody,          \* the stop body built for the last Debugger.paused event
    pausedWith,        \* history: the call frames of the last Debugger.paused event
    lastOp,            \* history: the last operation on the tables, what it returned
                       \* and how many requests it sent
    vRef,              \* the reference a variables() call is waiting for (0: none)
    file_bp_ids,       \* CDPClient._breakpoint_ids: file -> breakpointIds
    file_installed,    \* the breakpoints the inspector holds: [id, file, line]
    fPc,               \* CDPClient.set_breakpoints: "idle" | "remove" | "add"
    fFile,             \* its file
    fLines,            \* its lines
    fI,                \* its loop index
    fOld,              \* the id list its removal loop runs over
    fCalls,            \* calls of it so far
    program,           \* DebugSession._program ("none": None)
    bpMap,             \* DebugSession._breakpoints: <<[file, lines], ...>> in dict order
    pfile,             \* the persistence file: Absent or the JSON document
    saved,             \* history: the fields the last write of the file was made from
    pOp,               \* history: the last persistence-level operation
    delivered,         \* history: response (if any) the reader has read per id
    guarded,           \* history: the reader left alone a future that was done
    strays,            \* history: ill-formed messages the backend has emitted
    seen               \* history: the resumes/steps whose stop or exit event the
                       \* reader has read

clientVars == <<kind, phase, seq, pending, fut, stopped_event, terminated_event,
                stopFut, termFut, initFut, configured, launchId, nextGen, reader>>
taskVars == <<pc, op, rid, gen, myStop, myTerm, out>>
discVars == <<disc, discRid>>
backendVars == <<wire, reqGen, chan, alive, running>>
historyVars == <<delivered, guarded, strays, seen>>
bpVars == <<breakpoints, breakpoint_ids, installed, bpPc, bpI, bpOld, results, bpOut,
            bpCalls, bpCall>>
sessVars == <<client, process, ckind, language, nClients, sPc, sCmd, sRet, sFail,
              termDue, sBefore, made>>
callVars == <<reported, began>>
frameVars == <<last_stack_frames, described>>
innerVars == <<clientVars, taskVars, discVars, backendVars, historyVars, bpVars, callVars,
               frameVars>>
daemonVars == <<conn, req, replies, raised, shutdown_event, serving, main, started,
                stdout, stops, exitCode, waits>>
persistVars == <<program, bpMap, pfile, saved, pOp>>
tableVars == <<next_var_ref, object_ids, last_call_frames, last_dap_frames, lastBody,
               pausedWith, lastOp, vRef>>
fileBpVars == <<file_bp_ids, file_installed, fPc, fFile, fLines, fI, fOld, fCalls>>
outerVars == <<sessVars, daemonVars, persistVars, tableVars, fileBpVars>>
vars == <<innerVars, outerVars>>

\* ---------------------------------------------------------------- futures
\* An asyncio.Future: st is its state, val its result or error payload, and
\* sets counts the completing calls (set_result / set_exception / cancel)
\* applied to it; a second one is asyncio's InvalidStateError.
NoFut == [st |-> "none", val |-> 0, sets |-> 0]
NewFut == [st |-> "pending", val |-> 0, sets |-> 0]
Done(f) == f.st \notin {"none", "pending"}
Complete(f, st, val) == [st |-> st, val |-> val, sets |-> f.sets + 1]

\* A completion that does not look at done() first.
SetAlways(f, st, val) == IF f.st = "none" THEN f ELSE Complete(f, st, val)

\* `if fut and not fut.done(): fut.set_result(...)`
SetIfNotDone(f, st, val) == IF Done(f) \/ f.st = "none" THEN f ELSE Complete(f, st, val)

\* The body of the response to request i, and the message of its failure.
BodyOf(i) == 10 + i
MsgOf(i) == 20 + i

NoOut == [k |-> "none", v |-> 0]
Out(k, v) == [k |-> k, v |-> v]
\* What `await fut` gives the caller of _request/_send.
OutOfFut(f) ==
    CASE f.st = "result" -> Out("result", f.val)
      [] f.st = "error" -> Out("error", f.val)
      [] f.st = "connlost" -> Out("connlost", 0)
      [] OTHER -> Out("cancelled", 0)

ResumeOps == {"resume", "resume1"}

\* DebugSession._describe_stop has not been reached.
NoText == [text |-> "none", loc |-> -1]

\* DebugSession._describe_stop(stop_info) for the body o the client has
\* returned (a raised exception does not reach it).  CDP: stack_trace()
\* returns the cached frames at once, and with frames the reply is
\* format_stopped_at(path, line, reason) for the top one.  DAP: the reply
\* depends on a stackTrace request that is still to be made.
DescribeStop(o) ==
    IF o.k \notin {"stop", "terminated"} THEN NoText
    ELSE IF kind = "dap" THEN [text |-> "request", loc |-> -1]
    ELSE IF last_stack_frames # -1 THEN [text |-> "stopped_at", loc |-> last_stack_frames]
    ELSE [text |-> "stopped", loc |-> -1]

\* ---------------------------------------------------------------- Init
Init ==
    /\ kind \in {"dap", "cdp"}
    /\ phase = "new"
    /\ seq = 1
    /\ pending = {}
    /\ fut = [i \in Ids |-> NoFut]
    /\ stopped_event = 0
    /\ terminated_event = 0
    /\ stopFut = [g \in Gens |-> NoFut]
    /\ termFut = [g \in Gens |-> NoFut]
    /\ initFut = NoFut
    /\ configured = FALSE
    /\ launchId = 0
    /\ nextGen = 1
    /\ reader = "none"
    /\ pc = [t \in Tasks |-> "idle"]
    /\ op = [t \in Tasks |-> "none"]
    /\ rid = [t \in Tasks |-> 0]
    /\ gen = [t \in Tasks |-> 0]
    /\ myStop = [t \in Tasks |-> 0]
    /\ myTerm = [t \in Tasks |-> 0]
    /\ out = [t \in Tasks |-> NoOut]
    /\ disc = "no"
    /\ discRid = 0
    /\ wire = {}
    /\ reqGen = [i \in Ids |-> 0]
    /\ chan = <<>>
    /\ alive = FALSE
    /\ running = 0
    /\ delivered = [i \in Ids |-> "none"]
    /\ guarded = FALSE
    /\ strays = 0
    /\ seen = {}
    /\ breakpoints = <<>>
    /\ breakpoint_ids = <<>>
    /\ installed = {}
    /\ bpPc = "idle"
    /\ bpI = 0
    /\ bpOld = <<>>
    /\ results = <<>>
    /\ bpOut = "none"
    /\ bpCalls = 0
    /\ program = "none"
    /\ bpMap = <<>>
    /\ pfile = [t |-> "absent"]
    /\ saved = <<>>
    /\ pOp = "none"
    /\ file_bp_ids = [f \in {"a.py", "b.py"} |-> <<>>]
    /\ file_installed = {}
    /\ fPc = "idle"
    /\ fFile = "none"
    /\ fLines = <<>>
    /\ fI = 0
    /\ fOld = <<>>
    /\ fCalls = 0
    /\ next_var_ref = 1
    /\ object_ids = [r \in 1..MaxRef |-> "none"]
    /\ last_call_frames = <<>>
    /\ last_dap_frames = <<>>
    /\ lastBody = [reason |-> "none", threadId |-> 0, from |-> "none"]
    /\ pausedWith = <<>>
    /\ lastOp = [name |-> "none", ret |-> <<>>, sent |-> 0]
    /\ vRef = 0
    /\ conn = [c \in 1..MaxConn |-> "none"]
    /\ req = [c \in 1..MaxConn |-> "none"]
    /\ replies = [c \in 1..MaxConn |-> <<>>]
    /\ raised = [c \in 1..MaxConn |-> FALSE]
    /\ shutdown_event = FALSE
    /\ serving = FALSE
    /\ main = "start"
    /\ started = "none"
    /\ stdout = <<>>
    /\ stops = 0
    /\ exitCode = -1
    /\ waits = FALSE
    /\ reported = FALSE
    /\ last_stack_frames = -1
    /\ described = [t \in Tasks |-> [text |-> "none", loc |-> -1]]
    /\ began = [t \in Tasks |-> [exit |-> FALSE, lost |-> FALSE]]
    /\ client = 0
    /\ process = [c \in 1..MaxClients |-> "none"]
    /\ ckind = [c \in 1..MaxClients |-> "none"]
    /\ language = "none"
    /\ nClients = 0
    /\ sPc = "idle"
    /\ sCmd = "none"
    /\ sRet = "none"
    /\ sFail = FALSE
    /\ termDue = FALSE
    /\ sBefore = 0
    /\ made = {}
    /\ bpCall = [line |-> 0, repeat |-> FALSE, seq0 |-> <<>>,
                 held0 |-> [l \in Lines |-> 0]]

\* ---------------------------------------------------------------- launch
\* DebugSession.start: client.start() then client.launch(), on the path where
\* both succeed.  DAP: `initialize` (id 1) is answered, `launch` (id 2) is sent
\* by the launch task and stays pending, the `initialized` event fulfils
\* _initialized_event.  CDP: Debugger.enable, Runtime.enable and
\* Runtime.runIfWaitingForDebugger (ids 1..3) are answered, the first
\* Debugger.paused fulfils the launch's own stopped_event, which is then reset
\* to None.
Launch ==
    /\ phase = "new"
    /\ phase' = "ready"
    /\ reader' = "running"
    /\ alive' = TRUE
    /\ IF kind = "dap"
       THEN /\ seq' = 3
            /\ fut' = [fut EXCEPT ![1] = Complete(NewFut, "result", BodyOf(1)),
                                  ![2] = NewFut]
            /\ pending' = {2}
            /\ wire' = {2}
            /\ launchId' = 2
            /\ initFut' = Complete(NewFut, "result", 0)
            /\ delivered' = [delivered EXCEPT ![1] = "ok"]
       ELSE /\ seq' = 4
            /\ fut' = [i \in Ids |-> IF i <= 3 THEN Complete(NewFut, "result", BodyOf(i))
                                     ELSE fut[i]]
            /\ pending' = {}
            /\ wire' = {}
            /\ launchId' = 0
            /\ initFut' = initFut
            /\ delivered' = [i \in Ids |-> IF i <= 3 THEN "ok" ELSE delivered[i]]
    /\ last_stack_frames' = IF kind = "cdp" THEN 0 ELSE last_stack_frames
    /\ UNCHANGED <<kind, stopped_event, terminated_event, stopFut, termFut,
                   configured, nextGen>>
    /\ UNCHANGED <<taskVars, discVars, reqGen, chan, running>>
    /\ UNCHANGED <<guarded, strays, seen>>
    /\ UNCHANGED <<described, bpVars, outerVars, callVars>>

\* DAPClient.start(): the adapter is spawned, the reader task created and
\* `initialize` (id 1) answered.
ClientStart ==
    /\ kind = "dap" /\ phase = "new"
    /\ phase' = "started"
    /\ reader' = "running"
    /\ alive' = TRUE
    /\ seq' = 2
    /\ fut' = [fut EXCEPT ![1] = Complete(NewFut, "result", BodyOf(1))]
    /\ delivered' = [delivered EXCEPT ![1] = "ok"]
    /\ UNCHANGED <<kind, pending, stopped_event, terminated_event, stopFut, termFut,
                   initFut, configured, launchId, nextGen>>
    /\ UNCHANGED <<taskVars, discVars, wire, reqGen, chan, running>>
    /\ UNCHANGED <<guarded, strays, seen>>
    /\ UNCHANGED <<frameVars, bpVars, outerVars, callVars>>

\* DAPClient.launch() up to its await: _initialized_event is created, and the
\* launch task, the next coroutine to run, writes `launch` (id 2) and
\* registers its future.
LaunchBegin ==
    /\ kind = "dap" /\ phase = "started"
    /\ phase' = "launching"
    /\ initFut' = NewFut
    /\ seq' = 3
    /\ wire' = wire \cup {2}
    /\ fut' = [fut EXCEPT ![2] = NewFut]
    /\ pending' = pending \cup {2}
    /\ UNCHANGED <<kind, stopped_event, terminated_event, stopFut, termFut,
                   configured, launchId, nextGen, reader>>
    /\ UNCHANGED <<taskVars, discVars, reqGen, chan, alive, running, historyVars>>
    /\ UNCHANGED <<frameVars, bpVars, outerVars, callVars>>

\* A launch() that does not wait for the event.
NotAwaited == TRUE

\* `await asyncio.wait_for(self._initialized_event, TIMEOUT_LAUNCH)` returns.
Initialized == initFut.st = "result"

\* launch() resumes from wait_for: the event has arrived, the launch task is
\* stored and {} returned; or the wait has timed out, which cancels
\* _initialized_event and raises, with the launch task not stored.
LaunchReturn ==
    /\ kind = "dap" /\ phase = "launching"
    /\ IF Initialized
       THEN /\ phase' = "ready"
            /\ launchId' = 2
            /\ initFut' = initFut
       ELSE /\ phase' = "failed"
            /\ launchId' = 0
            /\ initFut' = Complete(initFut, "cancelled", 0)
    /\ UNCHANGED <<kind, seq, pending, fut, stopped_event, terminated_event, stopFut,
                   termFut, configured, nextGen, reader>>
    /\ UNCHANGED <<taskVars, discVars, backendVars, historyVars>>
    /\ UNCHANGED <<frameVars, bpVars, outerVars, callVars>>

\* The client takes commands: it is launched, or launch() has raised and the
\* session has kept the client (DebugSession.start returns its Error string
\* with self._client still set).
Usable == phase \in {"ready", "failed"}

\* ---------------------------------------------------------------- _request / _send
\* First half of DAPClient._request / CDPClient._send: take the next id and
\* write the message; the coroutine is then inside `await drain()` /
\* `await ws.send()`, its future not yet created.
LaunchIds == IF kind = "dap" THEN 2 ELSE 3
WriteRequest(t, g) ==
    /\ seq <= LaunchIds + MaxReq
    /\ seq' = seq + 1
    /\ wire' = wire \cup {seq}
    /\ reqGen' = [reqGen EXCEPT ![seq] = g]
    /\ rid' = [rid EXCEPT ![t] = seq]
    /\ pc' = [pc EXCEPT ![t] = "drain"]

\* The write of _request / _send raises (drain(): ConnectionResetError,
\* ws.send(): ConnectionClosed): the id is used up, nothing is registered.
SendFails(t) ==
    /\ seq <= LaunchIds + MaxReq
    /\ seq' = seq + 1
    /\ rid' = [rid EXCEPT ![t] = seq]
    /\ UNCHANGED <<pc, wire, reqGen>>

\* Whether the write goes through.  It can only raise with the backend down.
\* CDP: once the read loop has ended the WebSocket is closed and send()
\* raises.  DAP: drain() raises once the loop has seen the stdin pipe break,
\* which the EOF on stdout that ends the read loop does not imply.
CanSend(sent) ==
    /\ ~sent => ~alive
    /\ (kind = "cdp" /\ reader = "ended") => ~sent

\* What has happened when a command begins.
Begin == [exit |-> reported, lost |-> (reader = "ended")]

\* A new command runs in the first idle coroutine slot.
FreeSlot(t) == pc[t] = "idle" /\ \A u \in Tasks : u < t => pc[u] # "idle"

\* A command that is one request: evaluate, stackTrace, scopes, variables,
\* threads, setBreakpoints (DebugSession.inspect / get_stack / ...).
StartRequest(t, sent) ==
    /\ Usable /\ disc = "no"
    /\ FreeSlot(t)
    /\ CanSend(sent)
    /\ IF sent THEN WriteRequest(t, 0) ELSE SendFails(t)
    /\ op' = [op EXCEPT ![t] = "request"]
    /\ out' = [out EXCEPT ![t] = IF sent THEN NoOut ELSE Out("sendfail", 0)]
    /\ began' = [began EXCEPT ![t] = Begin]
    /\ UNCHANGED reported
    /\ UNCHANGED <<kind, phase, pending, fut, stopped_event, terminated_event, stopFut,
                   termFut, initFut, configured, launchId, nextGen, reader>>
    /\ UNCHANGED <<gen, myStop, myTerm, discVars, chan, alive, running, historyVars>>
    /\ described' = [described EXCEPT ![t] = NoText]
    /\ UNCHANGED <<last_stack_frames, bpVars, outerVars>>

\* DebugSession.resume / step -> continue_ / next_ / step_in: install a fresh
\* stop and terminate future, then send the request (configurationDone on
\* the DAP client's first continue_, through _ensure_configured).  Once the
\* DAP client is configured, and for CDP, continue_ and next_/step_in differ
\* in the name of the request only, and one of them stands for all.
StartResume(t, isContinue, sent) ==
    /\ Usable /\ disc = "no"
    /\ FreeSlot(t)
    /\ (kind = "cdp" \/ configured) => isContinue
    /\ nextGen <= MaxGen
    /\ CanSend(sent)
    /\ IF sent THEN WriteRequest(t, nextGen) ELSE SendFails(t)
    /\ began' = [began EXCEPT ![t] = Begin]
    /\ UNCHANGED reported
    /\ stopFut' = [stopFut EXCEPT ![nextGen] = NewFut]
    /\ termFut' = [termFut EXCEPT ![nextGen] = NewFut]
    /\ stopped_event' = nextGen
    /\ terminated_event' = nextGen
    /\ gen' = [gen EXCEPT ![t] = nextGen]
    /\ nextGen' = nextGen + 1
    /\ configured' = (configured \/ (kind = "dap" /\ isContinue))
    /\ op' = [op EXCEPT ![t] = IF kind = "dap" /\ ~configured /\ isContinue
                                THEN "resume1" ELSE "resume"]
    /\ out' = [out EXCEPT ![t] = IF sent THEN NoOut ELSE Out("sendfail", 0)]
    /\ UNCHANGED <<kind, phase, pending, fut, initFut, launchId, reader>>
    /\ UNCHANGED <<myStop, myTerm, discVars, chan, alive, running>>
    /\ UNCHANGED historyVars
    /\ described' = [described EXCEPT ![t] = NoText]
    /\ UNCHANGED <<last_stack_frames, bpVars, outerVars>>

\* Second half of _request / _send: `fut = loop.create_future();
\* self._pending[seq] = fut; return await fut`.
Register(t) ==
    /\ pc[t] = "drain"
    /\ fut' = [fut EXCEPT ![rid[t]] = NewFut]
    /\ pending' = pending \cup {rid[t]}
    /\ pc' = [pc EXCEPT ![t] = "await"]
    /\ UNCHANGED <<kind, phase, seq, stopped_event, terminated_event, stopFut, termFut,
                   initFut, configured, launchId, nextGen, reader>>
    /\ UNCHANGED <<op, rid, gen, myStop, myTerm, out, discVars, backendVars, historyVars>>
    /\ UNCHANGED <<frameVars, bpVars, outerVars, callVars>>

\* The caller of a command is resumed with outcome o: the command is over.
Finish(t, o) ==
    /\ pc' = [pc EXCEPT ![t] = "idle"]
    /\ out' = [out EXCEPT ![t] = o]
    /\ UNCHANGED <<myStop, myTerm>>

\* `wait_for_stop_or_terminate(self.stopped_event, self.terminated_event)`:
\* the arguments are read when the request has returned.
EnterRace(t) ==
    /\ pc' = [pc EXCEPT ![t] = "race"]
    /\ myStop' = [myStop EXCEPT ![t] = stopped_event]
    /\ myTerm' = [myTerm EXCEPT ![t] = terminated_event]
    /\ out' = out

LaunchTaskDone == launchId = 0 \/ Done(fut[launchId])

\* `return await fut` resumes: the request's result, or its exception raised
\* in the caller.  In continue_/next_/step_in a result leads on to the race
\* (after _ensure_configured's wait for the launch task, when it is not done).
RequestReturn(t) ==
    /\ pc[t] = "await"
    /\ Done(fut[rid[t]])
    /\ IF op[t] = "request" \/ fut[rid[t]].st # "result"
       THEN Finish(t, OutOfFut(fut[rid[t]]))
       ELSE IF op[t] = "resume1" /\ ~LaunchTaskDone
            THEN /\ pc' = [pc EXCEPT ![t] = "cfg"]
                 /\ UNCHANGED <<myStop, myTerm, out>>
            ELSE EnterRace(t)
    /\ UNCHANGED <<clientVars, op, rid, gen, discVars, backendVars, historyVars>>
    /\ UNCHANGED <<frameVars, bpVars, outerVars, callVars>>

\* _ensure_configured: `await asyncio.wait_for(self._launch_task, TIMEOUT_LAUNCH)`.
\* The launch response arrives, the launch request fails, or the wait times
\* out, which cancels the launch task and with it the future it awaits.
CfgReturn(t) ==
    /\ pc[t] = "cfg"
    /\ \/ /\ fut[launchId].st = "result"
          /\ EnterRace(t)
          /\ fut' = fut
       \/ /\ Done(fut[launchId]) /\ fut[launchId].st # "result"
          /\ Finish(t, OutOfFut(fut[launchId]))
          /\ fut' = fut
       \/ /\ ~Done(fut[launchId])
          /\ fut' = [fut EXCEPT ![launchId] = Complete(@, "cancelled", 0)]
          /\ Finish(t, Out("launch_timeout", 0))
    /\ UNCHANGED <<kind, phase, seq, pending, stopped_event, terminated_event, stopFut,
                   termFut, initFut, configured, launchId, nextGen, reader>>
    /\ UNCHANGED <<op, rid, gen, discVars, backendVars, historyVars>>
    /\ UNCHANGED <<frameVars, bpVars, outerVars, callVars>>

\* ---------------------------------------------------------------- the race
\* A race that leaves its pending futures as they are.
KeepPending(f) == f

\* `for fut in pending: fut.cancel()` of wait_for_stop_or_terminate.
CancelIfPending(f) == IF Done(f) THEN f ELSE Complete(f, "cancelled", 0)

\* What wait_for_stop_or_terminate returns or raises once asyncio.wait has
\* returned `done`, for the winner `done.pop()` picked.
RaceOutcome(s, m, winner) ==
    IF ~Done(s) /\ ~Done(m) THEN Out("timeout", 0)
    ELSE IF winner = "stopped"
         THEN IF s.st = "result" THEN Out("stop", s.val) ELSE Out("cancelled", 0)
         ELSE Out("terminated", 0)

\* wait_for_stop_or_terminate resumes from asyncio.wait: because one of the
\* two futures is done, or because the timeout has elapsed.  `done` and
\* `pending` are what the futures are at that moment; with both done,
\* `done.pop()` takes either.
RaceReturn(t) ==
    /\ pc[t] = "race"
    /\ LET s == stopFut[myStop[t]]
           m == termFut[myTerm[t]]
       IN /\ \E winner \in {"stopped", "terminated"} :
                /\ winner = "stopped" => (Done(s) \/ ~Done(m))
                /\ winner = "terminated" => Done(m)
                /\ Finish(t, RaceOutcome(s, m, winner))
                /\ reported' = (reported \/ RaceOutcome(s, m, winner).k = "terminated")
                /\ described' = [described EXCEPT ![t] =
                                    DescribeStop(RaceOutcome(s, m, winner))]
          /\ stopFut' = [stopFut EXCEPT ![myStop[t]] = CancelIfPending(s)]
          /\ termFut' = [termFut EXCEPT ![myTerm[t]] = CancelIfPending(m)]
    /\ UNCHANGED <<kind, phase, seq, pending, fut, stopped_event, terminated_event,
                   initFut, configured, launchId, nextGen, reader>>
    /\ UNCHANGED <<op, rid, gen, discVars, backendVars, historyVars>>
    /\ UNCHANGED <<last_stack_frames, bpVars, outerVars, began>>

\* ---------------------------------------------------------------- reader
\* The messages on the stream.  An event's `cause` stands for its body and is,
\* as history, the resume/step whose request set the debuggee running; the
\* signal it fulfils keeps it as its value (the terminate signal's result is
\* None in the code).  `stray` is history too: the message is ill-formed.
Response(i, ok, isStray) ==
    [type |-> "response", id |-> i, ok |-> ok, val |-> IF ok THEN BodyOf(i) ELSE MsgOf(i),
     ev |-> "", cause |-> 0, stray |-> isStray]
Event(e, g, isStray) ==
    [type |-> "event", id |-> 0, ok |-> TRUE, val |-> 0, ev |-> e, cause |-> g,
     stray |-> isStray]

\* DAPClient._handle_response / the `"id" in msg` branch of CDPClient._read_loop,
\* applied to the slot popped from the pending table.
HandleResponse(f, m) == SetIfNotDone(f, IF m.ok THEN "result" ELSE "error", m.val)

\* `if self.stopped_event and not self.stopped_event.done(): set_result(body)`
\* (and the same for terminated_event) in _handle_event.
FulfilSignal(futs, target, val) ==
    IF target = 0 THEN futs
    ELSE [futs EXCEPT ![target] = SetIfNotDone(@, "result", val)]

\* A teardown that clears the table without failing its slots.
DropPending(futs, keys) == futs

\* _fail_pending: fail every slot that is not done, then clear the table.
FailPending(futs, keys) ==
    [i \in Ids |-> IF i \in keys THEN SetIfNotDone(futs[i], "connlost", 0) ELSE futs[i]]

\* The signal an event of kind e is for is installed and done already.
SignalDone(e) ==
    CASE e = "stopped" -> stopped_event # 0 /\ Done(stopFut[stopped_event])
      [] e = "terminated" -> terminated_event # 0 /\ Done(termFut[terminated_event])
      [] OTHER -> Done(initFut)

\* The reader reads one response.
ReadResponse ==
    /\ reader = "running"
    /\ chan # <<>>
    /\ Head(chan).type = "response"
    /\ LET m == Head(chan)
           i == m.id
       IN /\ pending' = pending \ {i}
          /\ fut' = IF i \in pending THEN [fut EXCEPT ![i] = HandleResponse(@, m)] ELSE fut
          /\ delivered' = IF m.stray THEN delivered
                          ELSE [delivered EXCEPT ![i] = IF m.ok THEN "ok" ELSE "fail"]
          /\ guarded' = (guarded \/ (i \in pending /\ Done(fut[i])))
    /\ chan' = Tail(chan)
    /\ UNCHANGED <<kind, phase, seq, stopped_event, terminated_event, stopFut, termFut,
                   initFut, configured, launchId, nextGen, reader>>
    /\ UNCHANGED <<taskVars, discVars, wire, reqGen, alive, running>>
    /\ UNCHANGED <<strays, seen>>
    /\ UNCHANGED <<frameVars, bpVars, outerVars, callVars>>

\* The reader reads one event: DAP stopped / terminated / initialized, CDP
\* Debugger.paused / Inspector.detached or Runtime.executionContextDestroyed.
ReadEvent ==
    /\ reader = "running"
    /\ chan # <<>>
    /\ Head(chan).type = "event"
    /\ Head(chan).ev # "output"
    /\ LET m == Head(chan)
       IN /\ stopFut' = IF m.ev = "stopped"
                        THEN FulfilSignal(stopFut, stopped_event, m.cause) ELSE stopFut
          /\ termFut' = IF m.ev = "terminated"
                        THEN FulfilSignal(termFut, terminated_event, m.cause) ELSE termFut
          /\ initFut' = IF m.ev = "initialized"
                        THEN SetIfNotDone(initFut, "result", 0) ELSE initFut
          /\ guarded' = (guarded \/ SignalDone(m.ev))
          /\ last_stack_frames' = IF kind = "cdp" /\ m.ev = "stopped"
                                  THEN m.cause ELSE last_stack_frames
    /\ chan' = Tail(chan)
    /\ UNCHANGED <<kind, phase, seq, pending, fut, stopped_event, terminated_event,
                   configured, launchId, nextGen, reader>>
    /\ UNCHANGED <<taskVars, discVars, wire, reqGen, alive, running>>
    /\ seen' = IF Head(chan).ev \in {"stopped", "terminated"} /\ Head(chan).cause > 0
               THEN seen \cup {Head(chan).cause} ELSE seen
    /\ UNCHANGED <<delivered, strays>>
    /\ UNCHANGED <<described, bpVars, outerVars, callVars>>

\* The reader reads a DAP `output` event / a CDP Runtime.consoleAPICalled
\* event.  _handle_event takes the text out of the payload (body.get(...),
\* " ".join(a.get("description", a.get("value", "")) for a in args)); with a
\* payload of another shape (`stray`) that raises, the exception leaves
\* _handle_event and the loop, is logged by `except Exception`, and the
\* reader goes on to _fail_pending and ends.
ReadOutput ==
    /\ reader = "running"
    /\ chan # <<>>
    /\ Head(chan).type = "event"
    /\ Head(chan).ev = "output"
    /\ IF Head(chan).stray
       THEN /\ reader' = "ended"
            /\ fut' = FailPending(fut, pending)
            /\ pending' = {}
       ELSE UNCHANGED <<reader, fut, pending>>
    /\ chan' = Tail(chan)
    /\ UNCHANGED <<kind, phase, seq, stopped_event, terminated_event, stopFut, termFut,
                   initFut, configured, launchId, nextGen>>
    /\ UNCHANGED <<taskVars, discVars, wire, reqGen, alive, running, historyVars>>
    /\ UNCHANGED <<frameVars, bpVars, outerVars, callVars>>

\* The reader observes the end of the stream (IncompleteReadError /
\* ConnectionClosed): it leaves the loop and runs _fail_pending.
ReaderEOF ==
    /\ reader = "running"
    /\ chan = <<>>
    /\ ~alive
    /\ reader' = "ended"
    /\ fut' = FailPending(fut, pending)
    /\ pending' = {}
    /\ UNCHANGED <<kind, phase, seq, stopped_event, terminated_event, stopFut, termFut,
                   initFut, configured, launchId, nextGen>>
    /\ UNCHANGED <<taskVars, discVars, backendVars>>
    /\ UNCHANGED historyVars
    /\ UNCHANGED <<frameVars, bpVars, outerVars, callVars>>

\* ---------------------------------------------------------------- backend
\* The adapter / inspector answers a request it has received; answering a
\* resume or step request sets the debuggee running.
BackendRespond(i, ok) ==
    /\ alive
    /\ i \in wire
    /\ Len(chan) < MaxChan
    /\ chan' = Append(chan, Response(i, ok, FALSE))
    /\ wire' = wire \ {i}
    /\ reqGen[i] < 0 => ok
    /\ running' = IF ok /\ reqGen[i] > 0 /\ running # -1 THEN reqGen[i] ELSE running
    /\ UNCHANGED <<clientVars, taskVars, discVars, reqGen, alive, historyVars>>
    /\ UNCHANGED <<frameVars, bpVars, outerVars, callVars>>

\* The backend acts on a resume or step request before it writes the answer:
\* the debuggee runs, and its next pause or exit may be reported ahead of the
\* response.  reqGen[i] < 0 records that request i has been acted on.
BackendResumeEarly(i) ==
    /\ alive
    /\ i \in wire
    /\ reqGen[i] > 0
    /\ running = 0
    /\ running' = reqGen[i]
    /\ reqGen' = [reqGen EXCEPT ![i] = 0 - @]
    /\ UNCHANGED <<clientVars, taskVars, discVars, wire, chan, alive, historyVars>>
    /\ UNCHANGED <<frameVars, bpVars, outerVars, callVars>>

\* The running debuggee pauses (stopped) or exits (terminated).
BackendEvent(e) ==
    /\ alive
    /\ running > 0
    /\ Len(chan) < MaxChan
    /\ chan' = Append(chan, Event(e, running, FALSE))
    /\ running' = IF e = "terminated" THEN -1 ELSE 0
    /\ UNCHANGED <<clientVars, taskVars, discVars, wire, reqGen, alive, historyVars>>
    /\ UNCHANGED <<frameVars, bpVars, outerVars, callVars>>

\* The adapter, having received `launch`, sends its `initialized` event.
BackendInitialized ==
    /\ alive
    /\ 2 \in wire
    /\ initFut.st = "pending"
    /\ \A k \in 1..Len(chan) : chan[k].ev # "initialized"
    /\ Len(chan) < MaxChan
    /\ chan' = Append(chan, Event("initialized", 0, FALSE))
    /\ UNCHANGED <<clientVars, taskVars, discVars, wire, reqGen, alive, running, historyVars>>
    /\ UNCHANGED <<frameVars, bpVars, outerVars, callVars>>

\* The backend process dies or closes the stream.
BackendDie ==
    /\ alive
    /\ alive' = FALSE
    /\ running' = 0
    /\ UNCHANGED <<clientVars, taskVars, discVars, wire, reqGen, chan, historyVars>>
    /\ UNCHANGED <<frameVars, bpVars, outerVars, callVars>>

\* An ill-formed message: a response whose id matches no outstanding request
\* (duplicate or unknown), or an event repeated while the debuggee is not
\* running.
StrayMessages ==
    {Response(i, TRUE, TRUE) : i \in Ids \ wire}
        \cup {Event(e, 0, TRUE) : e \in {"stopped", "terminated", "initialized"}}

BackendStray(m) ==
    /\ alive
    /\ strays < MaxStray
    /\ Len(chan) < MaxChan
    /\ m.type = "event" => running <= 0
    /\ chan' = Append(chan, m)
    /\ strays' = strays + 1
    /\ UNCHANGED <<clientVars, taskVars, discVars, wire, reqGen, alive, running>>
    /\ UNCHANGED <<delivered, guarded, seen>>
    /\ UNCHANGED <<frameVars, bpVars, outerVars, callVars>>

\* The debuggee prints: the backend sends an output event, whose payload has
\* the shape the client reads (text in body.output / in every argument's
\* description or value) or another one (`odd`: body null, an argument that
\* is a boolean or null and so has neither a description nor a string value).
BackendOutput(odd) ==
    /\ alive
    /\ strays < MaxStray
    /\ Len(chan) < MaxChan
    /\ chan' = Append(chan, Event("output", 0, odd))
    /\ strays' = strays + 1
    /\ UNCHANGED <<clientVars, taskVars, discVars, wire, reqGen, alive, running>>
    /\ UNCHANGED <<delivered, guarded, seen>>
    /\ UNCHANGED <<frameVars, bpVars, outerVars, callVars>>

\* ---------------------------------------------------------------- disconnect
\* DAPClient.disconnect, first step: the adapter process is alive, so the
\* best-effort `disconnect` request is written.
DiscSendDap ==
    /\ kind = "dap" /\ phase = "ready" /\ disc = "no"
    /\ IF alive
       THEN /\ seq' = seq + 1
            /\ wire' = wire \cup {seq}
            /\ discRid' = seq
            /\ disc' = "drain"
       ELSE /\ disc' = "reader"
            /\ UNCHANGED <<seq, wire, discRid>>
    /\ UNCHANGED <<kind, phase, pending, fut, stopped_event, terminated_event, stopFut,
                   termFut, initFut, configured, launchId, nextGen, reader>>
    /\ UNCHANGED <<taskVars, reqGen, chan, alive, running, historyVars>>
    /\ UNCHANGED <<frameVars, bpVars, outerVars, callVars>>

\* The disconnect request's _request registers its future.
DiscRegister ==
    /\ disc = "drain"
    /\ fut' = [fut EXCEPT ![discRid] = NewFut]
    /\ pending' = pending \cup {discRid}
    /\ disc' = "await"
    /\ UNCHANGED <<kind, phase, seq, stopped_event, terminated_event, stopFut, termFut,
                   initFut, configured, launchId, nextGen, reader>>
    /\ UNCHANGED <<taskVars, discRid, backendVars, historyVars>>
    /\ UNCHANGED <<frameVars, bpVars, outerVars, callVars>>

\* `wait_for(self._request("disconnect"), TIMEOUT_DISCONNECT)` ends, by the
\* response, by an error or by the timeout (which cancels the request's
\* future); then `self._process.terminate()` and the wait for its exit.
\* When the adapter has exited during the wait and the loop has released the
\* process, terminate() raises ProcessLookupError, which ends disconnect()
\* (`raises`).
DiscKillDap(raises) ==
    /\ disc = "await"
    /\ raises => ~alive
    /\ fut' = [fut EXCEPT ![discRid] = CancelIfPending(@)]
    /\ alive' = FALSE
    /\ running' = 0
    /\ disc' = IF raises THEN "raised" ELSE "reader"
    /\ UNCHANGED <<kind, phase, seq, pending, stopped_event, terminated_event, stopFut,
                   termFut, initFut, configured, launchId, nextGen, reader>>
    /\ UNCHANGED <<taskVars, discRid, wire, reqGen, chan, historyVars>>
    /\ UNCHANGED <<frameVars, bpVars, outerVars, callVars>>

\* A reader that runs _fail_pending when it is cancelled.
CancelFails(futs, keys) == FailPending(futs, keys)

\* `except asyncio.CancelledError: return  # don't touch futures on
\* intentional cancel`: what the cancelled reader does to the slots.
CancelledReader(futs, keys) == futs

\* `self._reader_task.cancel()` and the await of the cancelled task: the
\* reader returns on CancelledError without touching the futures.  (First step
\* of CDPClient.disconnect; in DAPClient.disconnect it follows the kill.)
DiscCancelReader ==
    /\ phase = "ready"
    /\ \/ kind = "cdp" /\ disc = "no"
       \/ kind = "dap" /\ disc = "reader"
    /\ reader' = IF reader = "running" THEN "cancelled" ELSE reader
    /\ fut' = IF reader = "running" THEN CancelledReader(fut, pending) ELSE fut
    /\ disc' = IF kind = "cdp" THEN "kill" ELSE "clear"
    /\ UNCHANGED <<kind, phase, seq, pending, stopped_event, terminated_event,
                   stopFut, termFut, initFut, configured, launchId, nextGen>>
    /\ UNCHANGED <<taskVars, discRid, backendVars, historyVars>>
    /\ UNCHANGED <<frameVars, bpVars, outerVars, callVars>>

\* CDPClient.disconnect: close the WebSocket, terminate the node process.
DiscKillCdp ==
    /\ disc = "kill"
    /\ alive' = FALSE
    /\ running' = 0
    /\ disc' = "clear"
    /\ UNCHANGED <<clientVars, taskVars, discRid, wire, reqGen, chan, historyVars>>
    /\ UNCHANGED <<frameVars, bpVars, outerVars, callVars>>

\* What disconnect() does to the slots of the pending table before it clears
\* the table: nothing.
DisconnectSlots(futs, keys) == futs

\* Last step of disconnect(): `self._pending.clear()`; DebugSession.stop then
\* drops the client.
DiscClear ==
    /\ disc = "clear"
    /\ fut' = DisconnectSlots(fut, pending)
    /\ pending' = {}
    /\ disc' = "done"
    /\ phase' = "gone"
    /\ UNCHANGED <<kind, seq, stopped_event, terminated_event, stopFut, termFut,
                   initFut, configured, launchId, nextGen, reader>>
    /\ UNCHANGED <<taskVars, discRid, backendVars>>
    /\ UNCHANGED historyVars
    /\ UNCHANGED <<frameVars, bpVars, outerVars, callVars>>

\* ---------------------------------------------------------------- breakpoints
\* DebugSession.add_breakpoint and the clients' set_breakpoints, for one file
\* and with the calls made one after the other.  Each await of a request is
\* one step, taken when the request returns: ok = the backend carried it out
\* and answered with success, ~ok = it did not and the request raised.
Range(q) == {q[k] : k \in 1..Len(q)}
InstalledLines == {b.line : b \in installed}
\* The breakpointId the inspector gives a new breakpoint: one not yet used.
FreshId ==
    LET used == {b.id : b \in installed} \cup Range(breakpoint_ids) \cup Range(bpOld) \cup {0}
    IN 1 + CHOOSE x \in used : \A y \in used : y <= x

\* How many breakpoints the backend holds at line l of the file.
Held(l) == Cardinality({b \in installed : b.line = l})

\* add_breakpoint up to its first await: record the line, call
\* set_breakpoints(file, existing).  CDP: the first removeBreakpoint, or with
\* no recorded ids the reset of the id list and the first setBreakpointByUrl.
\* DAP: the setBreakpoints request.
AddBreakpoint(l) ==
    /\ phase = "ready"
    /\ bpPc = "idle"
    /\ bpCalls < MaxBpCalls
    /\ bpCalls' = bpCalls + 1
    /\ bpCall' = [line |-> l,
                  repeat |-> (l = bpCall.line /\ bpOut = "verified"),
                  seq0 |-> breakpoints,
                  held0 |-> [x \in Lines |-> Held(x)]]
    /\ breakpoints' = IF l \in Range(breakpoints) THEN breakpoints
                      ELSE Append(breakpoints, l)
    /\ bpI' = 1
    /\ results' = <<>>
    /\ bpOut' = "none"
    /\ IF kind = "dap"
       THEN /\ bpPc' = "dap"
            /\ UNCHANGED <<breakpoint_ids, bpOld>>
       ELSE IF breakpoint_ids # <<>>
            THEN /\ bpPc' = "remove"
                 /\ bpOld' = breakpoint_ids
                 /\ UNCHANGED breakpoint_ids
            ELSE /\ bpPc' = "set"
                 /\ bpOld' = <<>>
                 /\ breakpoint_ids' = <<>>
    /\ UNCHANGED installed
    /\ UNCHANGED <<clientVars, taskVars, discVars, backendVars, historyVars, outerVars, callVars, frameVars>>

\* DAPClient.set_breakpoints returns: the adapter has replaced the file's
\* breakpoints by `lines` and reports each as verified or not, or the request
\* has failed and add_breakpoint returns its Error string.
DapSetReturn(ok, allVerified) ==
    /\ bpPc = "dap"
    /\ bpPc' = "idle"
    /\ installed' = IF ok THEN {[id |-> 0, line |-> l] : l \in Range(breakpoints)}
                    ELSE installed
    /\ bpOut' = IF ~ok THEN "error" ELSE IF allVerified THEN "verified" ELSE "pending"
    /\ UNCHANGED <<breakpoints, breakpoint_ids, bpI, bpOld, results, bpCalls, bpCall>>
    /\ UNCHANGED <<clientVars, taskVars, discVars, backendVars, historyVars, outerVars, callVars, frameVars>>

\* One Debugger.removeBreakpoint of the remove loop returns (a failure is
\* swallowed); after the last one the id list is reset and the first
\* setBreakpointByUrl is sent.
RemoveReturn(ok) ==
    /\ bpPc = "remove"
    /\ installed' = IF ok THEN {b \in installed : b.id # bpOld[bpI]} ELSE installed
    /\ IF bpI < Len(bpOld)
       THEN /\ bpI' = bpI + 1
            /\ UNCHANGED <<bpPc, breakpoint_ids>>
       ELSE /\ bpI' = 1
            /\ bpPc' = "set"
            /\ breakpoint_ids' = <<>>
    /\ UNCHANGED <<breakpoints, bpOld, results, bpOut, bpCalls, bpCall>>
    /\ UNCHANGED <<clientVars, taskVars, discVars, backendVars, historyVars, outerVars, callVars, frameVars>>

\* What add_breakpoint reports for the results of set_breakpoints.
Report(rs) == IF \A k \in 1..Len(rs) : rs[k] THEN "verified" ELSE "pending"

\* One Debugger.setBreakpointByUrl of the set loop returns: its id is
\* appended and the line counted verified, or it has failed and the line is
\* counted unverified.  After the last line set_breakpoints returns and
\* add_breakpoint reports.  (The inspector refuses a second breakpoint at a
\* location it already holds one at: that request can only fail.)
SetReturn(ok) ==
    /\ bpPc = "set"
    /\ ok => Held(breakpoints[bpI]) = 0
    /\ LET l == breakpoints[bpI]
           id == FreshId
           rs == Append(results, ok)
       IN /\ installed' = IF ok THEN installed \cup {[id |-> id, line |-> l]}
                          ELSE installed
          /\ breakpoint_ids' = IF ok THEN Append(breakpoint_ids, id) ELSE breakpoint_ids
          /\ results' = rs
          /\ IF bpI < Len(breakpoints)
             THEN /\ bpI' = bpI + 1
                  /\ UNCHANGED <<bpPc, bpOut>>
             ELSE /\ bpI' = bpI
                  /\ bpPc' = "idle"
                  /\ bpOut' = Report(rs)
    /\ UNCHANGED <<breakpoints, bpOld, bpCalls, bpCall>>
    /\ UNCHANGED <<clientVars, taskVars, discVars, backendVars, historyVars, outerVars, callVars, frameVars>>

\* ---------------------------------------------------------------- session
\* DebugSession's lifecycle: the `_client` handle and the client objects it
\* has created, with the commands issued one after the other.
Clients == 1..MaxClients
Languages == {"node", "python"}
\* The `language` argument: None, an unsupported name, a supported name.
LanguageArgs == {"none", "ruby"} \cup Languages

\* A client whose subprocess (and reader task) is running.
Live(c) == process[c] = "running"

\* start(program, language), called as a command or as probe's first step, up
\* to its first await.  `found`: importlib finds debugpy (PythonAdapter()).
Start(cmd, l, found) ==
    LET lang == IF l = "none" THEN language ELSE l
        c == nClients + 1
    IN /\ sPc = "idle"
       /\ sCmd' = cmd
       /\ sBefore' = client
       /\ sFail' = FALSE
       /\ IF lang \notin Languages
          THEN /\ sRet' = "error"
               /\ made' = {}
               /\ UNCHANGED <<client, ckind, language, nClients, sPc>>
          ELSE IF lang = "python" /\ ~found
          THEN /\ sRet' = "raise"
               /\ made' = {}
               /\ UNCHANGED <<client, ckind, language, nClients, sPc>>
          ELSE /\ nClients < MaxClients
               /\ nClients' = c
               /\ client' = c
               /\ ckind' = [ckind EXCEPT ![c] = IF lang = "node" THEN "cdp" ELSE "dap"]
               /\ language' = lang
               /\ made' = {c}
               /\ sPc' = "spawn"
               /\ sRet' = "none"
       /\ UNCHANGED <<process, termDue>>
       /\ UNCHANGED <<innerVars, daemonVars, persistVars, tableVars, fileBpVars>>

\* create_subprocess_exec returns or raises (CDP: also `node` not on PATH).
\* A failure is caught by start, which returns its Error string.
SpawnReturn(ok) ==
    /\ sPc = "spawn"
    /\ IF ok
       THEN /\ process' = [process EXCEPT ![client] = "running"]
            /\ sPc' = "handshake"
            /\ UNCHANGED sRet
       ELSE /\ sPc' = "idle"
            /\ sRet' = "error"
            /\ UNCHANGED process
    /\ UNCHANGED <<client, ckind, language, nClients, sCmd, sFail, termDue, sBefore, made>>
    /\ UNCHANGED <<innerVars, daemonVars, persistVars, tableVars, fileBpVars>>

\* The rest of client.start() / client.launch() returns or raises (DAP:
\* initialize, launch and the wait for `initialized`; CDP: the inspector URL,
\* the WebSocket and the wait for the first pause).  start returns; probe goes
\* on to its add_breakpoint.
HandshakeReturn(ok) ==
    /\ sPc = "handshake"
    /\ ok => Live(client)
    /\ IF ~ok
       THEN sPc' = "idle" /\ sRet' = "error"
       ELSE IF sCmd = "start"
       THEN sPc' = "idle" /\ sRet' = "ok"
       ELSE sPc' = "p_bp" /\ UNCHANGED sRet
    /\ UNCHANGED <<client, process, ckind, language, nClients, sCmd, sFail, termDue,
                   sBefore, made>>
    /\ UNCHANGED <<innerVars, daemonVars, persistVars, tableVars, fileBpVars>>

\* probe's add_breakpoint, resume and collection return; after a failure and
\* after the last of them probe calls stop().
ProbeStep(ok) ==
    /\ sPc \in {"p_bp", "p_resume", "p_collect"}
    /\ sFail' = ~ok
    /\ IF ok /\ sPc # "p_collect"
       THEN /\ sPc' = IF sPc = "p_bp" THEN "p_resume" ELSE "p_collect"
            /\ UNCHANGED termDue
       ELSE /\ sPc' = "disconnect"
            /\ termDue' = Live(client)
    /\ UNCHANGED <<client, process, ckind, language, nClients, sCmd, sRet, sBefore, made>>
    /\ UNCHANGED <<innerVars, daemonVars, persistVars, tableVars, fileBpVars>>

\* stop() up to its first await: with no client it returns at once.
Stop ==
    /\ sPc = "idle"
    /\ sCmd' = "stop"
    /\ sBefore' = client
    /\ sFail' = FALSE
    /\ IF client = 0
       THEN sRet' = "ok" /\ UNCHANGED <<sPc, termDue>>
       ELSE sRet' = "none" /\ sPc' = "disconnect" /\ termDue' = Live(client)
    /\ UNCHANGED <<client, process, ckind, language, nClients, made>>
    /\ UNCHANGED <<innerVars, daemonVars, persistVars, tableVars, fileBpVars>>

\* client.disconnect() returns and stop clears the handle, or it raises.
\* DAPClient.disconnect calls process.terminate() after the await of its
\* disconnect request: when the adapter has exited meanwhile, terminate()
\* raises ProcessLookupError once the loop has released the process.
Disconnect(raises) ==
    /\ sPc = "disconnect"
    /\ raises => (ckind[client] = "dap" /\ termDue /\ process[client] = "exited")
    /\ sPc' = "idle"
    /\ IF raises
       THEN /\ sRet' = "raise"
            /\ UNCHANGED <<client, process>>
       ELSE /\ sRet' = IF sFail THEN "error" ELSE "ok"
            /\ process' = [process EXCEPT ![client] = IF @ = "running" THEN "killed" ELSE @]
            /\ client' = 0
    /\ UNCHANGED <<ckind, language, nClients, sCmd, sFail, termDue, sBefore, made>>
    /\ UNCHANGED <<innerVars, daemonVars, persistVars, tableVars, fileBpVars>>

\* add_breakpoint / resume / step / inspect / get_stack / get_local_variables:
\* without a client the "no active debug session" Error string, else what the
\* client call gives.
OtherCommand(ok) ==
    /\ sPc = "idle"
    /\ sCmd' = "other"
    /\ sBefore' = client
    /\ sFail' = FALSE
    /\ sRet' = IF client = 0 THEN "noactive" ELSE IF ok THEN "ok" ELSE "error"
    /\ UNCHANGED <<client, process, ckind, language, nClients, sPc, termDue, made>>
    /\ UNCHANGED <<innerVars, daemonVars, persistVars, tableVars, fileBpVars>>

\* A subprocess exits by itself.
ProcessExit(c) ==
    /\ Live(c)
    /\ process' = [process EXCEPT ![c] = "exited"]
    /\ UNCHANGED <<client, ckind, language, nClients, sPc, sCmd, sRet, sFail, termDue,
                   sBefore, made>>
    /\ UNCHANGED <<innerVars, daemonVars, persistVars, tableVars, fileBpVars>>

\* ---------------------------------------------------------------- daemon
\* SessionDaemon: one _handle_client coroutine per accepted connection.
Conns == 1..MaxConn
\* What readline() gives: a request line (not JSON, an action that is not in
\* _ACTION_TABLE, a known action whose payload lacks a field, a command of the
\* session, stop), an empty read, or nothing within TIMEOUT_DAEMON_CMD.
RequestLines == {"badjson", "unknown", "badpayload", "cmd", "stop"}
Reads == RequestLines \cup {"eof", "timeout"}

\* writer.write(json.dumps({"result": ...}) + "\n") / ({"error": ...}).
Reply(c, r) == replies' = [replies EXCEPT ![c] = Append(@, r)]

\* asyncio.start_server accepts a connection and starts _handle_client.
Accept(c) ==
    /\ serving
    /\ conn[c] = "none"
    /\ conn' = [conn EXCEPT ![c] = "read"]
    /\ UNCHANGED <<req, replies, raised, shutdown_event, serving>>
    /\ UNCHANGED <<main, started, stdout, stops, exitCode, waits>>
    /\ UNCHANGED <<innerVars, sessVars, persistVars, tableVars, fileBpVars>>

\* _handle_client resumes from readline() and runs up to its next
\* suspension: the await of the session inside the handler of a command, or
\* the end of the connection.  json.loads, a handler's cmd["..."] and the
\* read timeout raise an Exception, answered by the except branch;
\* _dispatch returns a string for an action it does not know; _do_stop sets
\* shutdown_event and returns.
ReadLine(c, r) ==
    /\ conn[c] = "read"
    /\ req' = [req EXCEPT ![c] = r]
    /\ conn' = [conn EXCEPT ![c] = IF r = "cmd" THEN "dispatch" ELSE "closed"]
    /\ CASE r \in {"badjson", "badpayload", "timeout"} -> Reply(c, "error")
         [] r \in {"unknown", "stop"} -> Reply(c, "result")
         [] OTHER -> UNCHANGED replies
    /\ raised' = [raised EXCEPT ![c] = (r = "badpayload")]
    /\ shutdown_event' = (shutdown_event \/ r = "stop")
    /\ UNCHANGED serving
    /\ UNCHANGED <<main, started, stdout, stops, exitCode, waits>>
    /\ UNCHANGED <<innerVars, sessVars, persistVars, tableVars, fileBpVars>>

\* The handler of a command resumes from the session: the command's string,
\* or the CancelledError that resume / step let through, which is no
\* Exception: only the finally branch runs.
HandlerReturn(c, o) ==
    /\ conn[c] = "dispatch"
    /\ conn' = [conn EXCEPT ![c] = "closed"]
    /\ IF o = "string" THEN Reply(c, "result") ELSE UNCHANGED replies
    /\ raised' = [raised EXCEPT ![c] = (o = "cancelled")]
    /\ UNCHANGED <<req, shutdown_event, serving>>
    /\ UNCHANGED <<main, started, stdout, stops, exitCode, waits>>
    /\ UNCHANGED <<innerVars, sessVars, persistVars, tableVars, fileBpVars>>

\* A start_and_serve that goes on whatever start returned.
AlwaysBind(r) == "bind"

\* What start_and_serve does with the string session.start returned:
\* `if result.startswith("Error"): print({"error": ...}); sys.exit(1)`.
AfterStart(r) == IF r = "ok" THEN "bind" ELSE "exited"

\* start_and_serve up to the end of `await self.session.start(...)`: start
\* returns its success string or an Error string, or raises (the exception
\* leaves asyncio.run: no line is printed, the exit status is 1).  The
\* interpreter the daemon runs on decides whether wait_closed() waits.
DaemonStart(r, w) ==
    /\ main = "start"
    /\ started' = r
    /\ waits' = w
    /\ main' = IF r = "raise" THEN "exited" ELSE AfterStart(r)
    /\ stdout' = IF r = "error" THEN Append(stdout, "error") ELSE stdout
    /\ exitCode' = IF r = "ok" THEN exitCode ELSE 1
    /\ UNCHANGED <<conn, req, replies, raised, shutdown_event, serving, stops>>
    /\ UNCHANGED <<innerVars, sessVars, persistVars, tableVars, fileBpVars>>

\* asyncio.start_server binds and listens, then the readiness line is
\* printed; or the bind fails and the OSError leaves asyncio.run.
StartServer(ok) ==
    /\ main = "bind"
    /\ IF ok
       THEN /\ serving' = TRUE
            /\ stdout' = Append(stdout, "ready")
            /\ main' = "serve"
            /\ UNCHANGED exitCode
       ELSE /\ main' = "exited"
            /\ exitCode' = 1
            /\ UNCHANGED <<serving, stdout>>
    /\ UNCHANGED <<conn, req, replies, raised, shutdown_event, started, stops, waits>>
    /\ UNCHANGED <<innerVars, sessVars, persistVars, tableVars, fileBpVars>>

\* start_and_serve resumes from shutdown_event.wait() and leaves
\* `async with tcp_server`: the server stops accepting.
ServerClose ==
    /\ main = "serve"
    /\ shutdown_event
    /\ serving' = FALSE
    /\ main' = "closing"
    /\ UNCHANGED <<conn, req, replies, raised, shutdown_event, started, stdout, stops,
                   exitCode, waits>>
    /\ UNCHANGED <<innerVars, sessVars, persistVars, tableVars, fileBpVars>>

\* Server.__aexit__'s `await self.wait_closed()` returns: at once, or where
\* it waits for the open connections, when none is left.  Then
\* `await self.session.stop()` is called.
ServerClosed ==
    /\ main = "closing"
    /\ waits => \A c \in Conns : conn[c] \in {"none", "closed"}
    /\ main' = "stop"
    /\ stops' = stops + 1
    /\ UNCHANGED <<conn, req, replies, raised, shutdown_event, serving, started, stdout,
                   exitCode, waits>>
    /\ UNCHANGED <<innerVars, sessVars, persistVars, tableVars, fileBpVars>>

\* session.stop() returns or raises an Exception, which is swallowed;
\* start_and_serve returns.
StopReturn(raises) ==
    /\ main = "stop"
    /\ main' = "exited"
    /\ exitCode' = 0
    /\ UNCHANGED <<conn, req, replies, raised, shutdown_event, serving, started, stdout,
                   stops, waits>>
    /\ UNCHANGED <<innerVars, sessVars, persistVars, tableVars, fileBpVars>>

\* start_and_serve has returned while a connection's coroutine is still
\* suspended: asyncio.run cancels it, and its finally branch closes the
\* connection.
Teardown(c) ==
    /\ main = "exited"
    /\ conn[c] \in {"read", "dispatch"}
    /\ conn' = [conn EXCEPT ![c] = "closed"]
    /\ UNCHANGED <<req, replies, raised, shutdown_event, serving>>
    /\ UNCHANGED <<main, started, stdout, stops, exitCode, waits>>
    /\ UNCHANGED <<innerVars, sessVars, persistVars, tableVars, fileBpVars>>

\* ---------------------------------------------------------------- persistence
\* DebugSession with a persistence file (from_file_or_new): the three
\* persisted fields and the JSON document on disk.
Files == {"a.py", "b.py"}
Programs == {"p.py"}
Absent == [t |-> "absent"]

\* json.dump / json.load of the values that occur: None <-> null, str, int,
\* list <-> array (in order), dict <-> object (in insertion order).
JNull == [t |-> "null"]
J(type, val) == [t |-> type, v |-> val]
Member(k, j) == [key |-> k, val |-> j]

EncodeOpt(x) == IF x = "none" THEN JNull ELSE J("str", x)
EncodeLines(ls) == J("arr", [k \in 1..Len(ls) |-> J("num", ls[k])])
EncodeMap(m) == J("obj", [k \in 1..Len(m) |-> Member(m[k].file, EncodeLines(m[k].lines))])
\* The document _save writes.
Dump(lang, prog, m) ==
    J("obj", <<Member("language", EncodeOpt(lang)),
           Member("program", EncodeOpt(prog)),
           Member("breakpoints", EncodeMap(m))>>)

DecodeOpt(j) == IF j.t = "null" THEN "none" ELSE j.v
DecodeLines(j) == [k \in 1..Len(j.v) |-> j.v[k].v]
DecodeMap(j) == [k \in 1..Len(j.v) |-> [file |-> j.v[k].key, lines |-> DecodeLines(j.v[k].val)]]

\* A data.get that finds nothing.
GetDefault(obj, key, default) == default

\* data.get(key, default) on the loaded document.
Get(obj, key, default) ==
    IF \E k \in 1..Len(obj.v) : obj.v[k].key = key
    THEN (obj.v[CHOOSE k \in 1..Len(obj.v) : obj.v[k].key = key]).val
    ELSE default

\* self._breakpoints after add_breakpoint(f, l): `existing = get(f, []);
\* if l not in existing: existing.append(l); self._breakpoints[f] = existing`.
Record(m, f, l) ==
    IF \E k \in 1..Len(m) : m[k].file = f
    THEN [k \in 1..Len(m) |->
            IF m[k].file = f /\ l \notin Range(m[k].lines)
            THEN [file |-> f, lines |-> Append(m[k].lines, l)]
            ELSE m[k]]
    ELSE Append(m, [file |-> f, lines |-> <<l>>])

\* _save with the fields as they will be: the file is rewritten, or open()
\* fails with an OSError, which is logged and swallowed.
Save(lang, prog, m, written) ==
    IF written
    THEN /\ pfile' = Dump(lang, prog, m)
         /\ saved' = <<lang, prog, m>>
    ELSE UNCHANGED <<pfile, saved>>

\* The session fields the persistence actions do not touch.
sessRest == <<process, ckind, nClients, sPc, sCmd, sRet, sFail, termDue, sBefore, made>>

\* start(program, language) as a whole, `ok`: client.start() and launch()
\* succeed.  Nothing is assigned when the language is refused.
PersistStart(prog, l, ok, written) ==
    LET lang == IF l = "none" THEN language ELSE l
    IN /\ pOp' = "start"
       /\ IF lang \notin Languages
          THEN UNCHANGED <<client, language, program, bpMap, pfile, saved>>
          ELSE /\ client' = 1
               /\ language' = lang
               /\ program' = prog
               /\ bpMap' = <<>>
               /\ IF ok THEN Save(lang, prog, <<>>, written)
                        ELSE UNCHANGED <<pfile, saved>>
       /\ UNCHANGED <<sessRest, innerVars, daemonVars, tableVars, fileBpVars>>

\* add_breakpoint(f, l) as a whole, `ok`: client.set_breakpoints succeeds.
PersistAdd(f, l, ok, written) ==
    /\ pOp' = "add"
    /\ IF client = 0
       THEN UNCHANGED <<bpMap, pfile, saved>>
       ELSE /\ bpMap' = Record(bpMap, f, l)
            /\ IF ok THEN Save(language, program, Record(bpMap, f, l), written)
                     ELSE UNCHANGED <<pfile, saved>>
    /\ UNCHANGED <<client, language, program>>
    /\ UNCHANGED <<sessRest, innerVars, daemonVars, tableVars, fileBpVars>>

\* stop() as a whole: the client is disconnected and the file removed
\* (_delete_session_file; a failing os.remove is swallowed).
PersistStop(removed) ==
    /\ pOp' = "stop"
    /\ client' = 0
    /\ pfile' = IF removed THEN Absent ELSE pfile
    /\ UNCHANGED <<language, program, bpMap, saved>>
    /\ UNCHANGED <<sessRest, innerVars, daemonVars, tableVars, fileBpVars>>

\* A new process builds its session with from_file_or_new(language = l).
Restore(l) ==
    LET lang0 == IF pfile = Absent THEN "none"
                 ELSE DecodeOpt(Get(pfile, "language", EncodeOpt(l)))
    IN /\ pOp' = IF l = "none" /\ pfile # Absent THEN "restore" ELSE "new"
       /\ client' = 0
       /\ language' = IF l # "none" THEN l ELSE lang0
       /\ program' = IF pfile = Absent THEN "none"
                     ELSE DecodeOpt(Get(pfile, "program", JNull))
       /\ bpMap' = IF pfile = Absent THEN <<>>
                   ELSE DecodeMap(Get(pfile, "breakpoints", J("obj", <<>>)))
       /\ UNCHANGED <<pfile, saved>>
       /\ UNCHANGED <<sessRest, innerVars, daemonVars, tableVars, fileBpVars>>

\* ---------------------------------------------------------------- Next
\* The client in use: commands, reader and backend.
Commands ==
    \/ \E t \in Tasks, sent \in BOOLEAN : StartRequest(t, sent)
    \/ \E t \in Tasks, isContinue, sent \in BOOLEAN : StartResume(t, isContinue, sent)
    \/ \E t \in Tasks : Register(t)
    \/ \E t \in Tasks : RequestReturn(t)
    \/ \E t \in Tasks : CfgReturn(t)
    \/ \E t \in Tasks : RaceReturn(t)
    \/ ReadResponse
    \/ ReadEvent
    \/ ReaderEOF
    \/ \E i \in Ids, ok \in BOOLEAN : BackendRespond(i, ok)
    \/ \E e \in {"stopped", "terminated"} : BackendEvent(e)
    \/ BackendDie

Next ==
    \/ Launch
    \/ Commands

Spec == Init /\ [][Next]_vars

\* The same with the DAP client's start() and launch() step by step, and an
\* adapter that may send `initialized` early or late.
NextLaunch ==
    \/ kind = "cdp" /\ Launch
    \/ ClientStart
    \/ LaunchBegin
    \/ LaunchReturn
    \/ BackendInitialized
    \/ BackendStray(Event("initialized", 0, TRUE))
    \/ Commands

SpecLaunch == Init /\ [][NextLaunch]_vars

\* The same with a backend that may report the pause or exit a resume or
\* step leads to before it answers the request.
NextEarly ==
    \/ Next
    \/ \E i \in Ids : BackendResumeEarly(i)

SpecEarly == Init /\ [][NextEarly]_vars

\* The same with a backend that may also send ill-formed messages.
NextStray ==
    \/ Next
    \/ \E m \in StrayMessages : BackendStray(m)

SpecStray == Init /\ [][NextStray]_vars

\* The same with a debuggee that prints.
NextOutput ==
    \/ Next
    \/ \E odd \in BOOLEAN : BackendOutput(odd)
    \/ ReadOutput

SpecOutput == Init /\ [][NextOutput]_vars

\* The same with disconnect() (DebugSession.stop) running beside the commands.
NextDisc ==
    \/ Next
    \/ DiscSendDap
    \/ DiscRegister
    \/ \E raises \in BOOLEAN : DiscKillDap(raises)
    \/ DiscCancelReader
    \/ DiscKillCdp
    \/ DiscClear

SpecDisc == Init /\ [][NextDisc]_vars

\* The client in use, with the event loop's timers firing: asyncio.wait's
\* timeout (TIMEOUT_RESUME) resumes a call that waits in the race.
SpecTimed == Init /\ [][Next]_vars /\ \A t \in Tasks : WF_vars(RaceReturn(t))

\* A launched session in which breakpoints are added.
NextBp ==
    \/ Launch
    \/ \E l \in Lines : AddBreakpoint(l)
    \/ \E ok, allVerified \in BOOLEAN : DapSetReturn(ok, allVerified)
    \/ \E ok \in BOOLEAN : RemoveReturn(ok)
    \/ \E ok \in BOOLEAN : SetReturn(ok)

SpecBp == Init /\ [][NextBp]_vars

\* The session's lifecycle commands, one after the other.
NextSession ==
    \/ \E cmd \in {"start", "probe"}, l \in LanguageArgs, found \in BOOLEAN :
            Start(cmd, l, found)
    \/ \E ok \in BOOLEAN : SpawnReturn(ok)
    \/ \E ok \in BOOLEAN : HandshakeReturn(ok)
    \/ \E ok \in BOOLEAN : ProbeStep(ok)
    \/ Stop
    \/ \E raises \in BOOLEAN : Disconnect(raises)
    \/ \E ok \in BOOLEAN : OtherCommand(ok)
    \/ \E c \in Clients : ProcessExit(c)

SpecSession == Init /\ [][NextSession]_vars

\* The daemon serving its connections.
NextDaemon ==
    \/ \E r \in {"ok", "error", "raise"}, w \in BOOLEAN : DaemonStart(r, w)
    \/ \E ok \in BOOLEAN : StartServer(ok)
    \/ \E c \in Conns : Accept(c)
    \/ \E c \in Conns, r \in Reads : ReadLine(c, r)
    \/ \E c \in Conns, o \in {"string", "cancelled"} : HandlerReturn(c, o)
    \/ ServerClose
    \/ ServerClosed
    \/ \E raises \in BOOLEAN : StopReturn(raises)
    \/ \E c \in Conns : Teardown(c)

SpecDaemon == Init /\ [][NextDaemon]_vars

\* The daemon with its event loop running: the main coroutine's steps and
\* the read of a connection (a line, or the 120 s timeout) happen; a handler
\* that waits for the session has no bound.
SpecDaemonLive ==
    /\ SpecDaemon
    /\ WF_vars(ServerClose) /\ WF_vars(ServerClosed)
    /\ WF_vars(\E raises \in BOOLEAN : StopReturn(raises))
    /\ \A c \in Conns : WF_vars(\E r \in Reads : ReadLine(c, r))

\* ---------------------------------------------------------------- CDP tables
\* The CDP client's frame cache and variable references.  A call frame of a
\* Debugger.paused event is [fn, line, col, scopes]: its functionName
\* ("missing": no such key), its 0-based location and the objectIds of its
\* scope chain ("": a scope object without objectId).
ObjectIds == {"o1", "o2"}
CallFrames ==
    {[fn |-> "missing", line |-> 0, col |-> 0, scopes |-> <<>>],
     [fn |-> "", line |-> 1, col |-> 3, scopes |-> <<"o1">>],
     [fn |-> "f", line |-> 1, col |-> 0, scopes |-> <<"", "o2">>]}
FrameLists == {<<>>} \cup {<<a>> : a \in CallFrames} \cup {<<a, b>> : a, b \in CallFrames}
Reasons == {"missing", "breakpoint", "exception", "other", "debugCommand"}
ChildLists == {<<>>, <<"o1">>, <<"", "o2">>}

\* A projection that passes the function name on as it is.
RawName(fn) == fn

\* `cf.get("functionName", "(anonymous)") or "(anonymous)"`
FrameName(fn) == IF fn \in {"missing", ""} THEN "(anonymous)" ELSE fn

\* CDPClient._convert_frames: `for i, cf in enumerate(call_frames)`.
ConvertFrames(cfs) ==
    [k \in 1..Len(cfs) |->
        [id |-> k - 1, name |-> FrameName(cfs[k].fn),
         line |-> cfs[k].line + 1, column |-> cfs[k].col + 1]]

\* A mapping that passes every reason on as it is.
SameReason(r) == r

\* `reason = params.get("reason", "other")`, then the dict lookup
\* {...}.get(reason, reason).
MapReason(r) ==
    LET reason == IF r = "missing" THEN "other" ELSE r
    IN CASE reason = "breakpoint" -> "breakpoint"
         [] reason = "exception" -> "exception"
         [] reason = "other" -> "step"
         [] OTHER -> reason

\* A cache that keeps the list it has.
KeepOld(old, new) == old

\* `self._last_call_frames = call_frames`
Cache(old, new) == new

\* The reader handles a Debugger.paused event (_handle_event, without the
\* stop signal): both caches are replaced and the stop body is built.
Paused(cfs, r) ==
    /\ last_call_frames' = Cache(last_call_frames, cfs)
    /\ last_dap_frames' = ConvertFrames(cfs)
    /\ lastBody' = [reason |-> MapReason(r), threadId |-> 1, from |-> r]
    /\ pausedWith' = cfs
    /\ lastOp' = [name |-> "paused", ret |-> <<>>, sent |-> 0]
    /\ UNCHANGED <<next_var_ref, object_ids, vRef>>
    /\ UNCHANGED <<innerVars, sessVars, daemonVars, persistVars, fileBpVars>>

\* CDPClient.stack_trace.
StackTrace ==
    /\ lastOp' = [name |-> "stack_trace", ret |-> last_dap_frames, sent |-> 0]
    /\ UNCHANGED <<next_var_ref, object_ids, last_call_frames, last_dap_frames, lastBody,
                   pausedWith, vRef>>
    /\ UNCHANGED <<innerVars, sessVars, daemonVars, persistVars, fileBpVars>>

\* A counter that stays where it is.
SameRef(n) == n

\* `self._next_var_ref += 1`
NextRef(n) == n + 1

\* CDPClient._store_object_id for the objectIds q, one after the other,
\* starting from counter n and table tab: [n, tab, refs], refs the references
\* returned.
RECURSIVE StoreAll(_, _, _)
StoreAll(q, n, tab) ==
    IF q = <<>> THEN [n |-> n, tab |-> tab, refs |-> <<>>]
    ELSE IF Head(q) = ""
         THEN LET rest == StoreAll(Tail(q), n, tab)
              IN [rest EXCEPT !.refs = <<0>> \o @]
         ELSE LET rest == StoreAll(Tail(q), NextRef(n), [tab EXCEPT ![n] = Head(q)])
              IN [rest EXCEPT !.refs = <<n>> \o @]

\* The references q would take.
Minted(q) == Cardinality({k \in 1..Len(q) : q[k] # ""})

\* CDPClient._get_object_id: self._object_ids.get(var_ref).
GetObjectId(ref) == IF ref \in 1..MaxRef THEN object_ids[ref] ELSE "none"

\* CDPClient.scopes(frame_id): no request; one reference per scope of the
\* frame, or no scopes for an index outside the cached list.
Scopes(frame_id) ==
    /\ IF frame_id < 0 \/ frame_id >= Len(last_call_frames)
       THEN /\ lastOp' = [name |-> "scopes", ret |-> <<>>, sent |-> 0]
            /\ UNCHANGED <<next_var_ref, object_ids>>
       ELSE LET q == last_call_frames[frame_id + 1].scopes
                s == StoreAll(q, next_var_ref, object_ids)
            IN /\ next_var_ref + Minted(q) <= MaxRef + 1
               /\ next_var_ref' = s.n
               /\ object_ids' = s.tab
               /\ lastOp' = [name |-> "scopes", ret |-> s.refs, sent |-> 0]
    /\ UNCHANGED <<last_call_frames, last_dap_frames, lastBody, pausedWith, vRef>>
    /\ UNCHANGED <<innerVars, sessVars, daemonVars, persistVars, fileBpVars>>

\* CDPClient.variables(ref) up to its await: a reference that resolves to no
\* object gives no variables at once; otherwise Runtime.getProperties is sent.
Variables(ref) ==
    /\ vRef = 0
    /\ IF GetObjectId(ref) = "none"
       THEN /\ lastOp' = [name |-> "variables", ret |-> <<>>, sent |-> 0]
            /\ vRef' = 0
       ELSE /\ lastOp' = [name |-> "send", ret |-> <<>>, sent |-> 1]
            /\ vRef' = ref
    /\ UNCHANGED <<next_var_ref, object_ids, last_call_frames, last_dap_frames, lastBody,
                   pausedWith>>
    /\ UNCHANGED <<innerVars, sessVars, daemonVars, persistVars, fileBpVars>>

\* variables() resumes: the request has failed (no variables), or its result
\* lists properties, whose objectIds are q: one reference per child object.
VariablesReturn(ok, q) ==
    /\ vRef # 0
    /\ vRef' = 0
    /\ IF ok
       THEN LET s == StoreAll(q, next_var_ref, object_ids)
            IN /\ next_var_ref + Minted(q) <= MaxRef + 1
               /\ next_var_ref' = s.n
               /\ object_ids' = s.tab
               /\ lastOp' = [name |-> "variables", ret |-> s.refs, sent |-> 0]
       ELSE /\ lastOp' = [name |-> "variables", ret |-> <<>>, sent |-> 0]
            /\ UNCHANGED <<next_var_ref, object_ids>>
    /\ UNCHANGED <<last_call_frames, last_dap_frames, lastBody, pausedWith>>
    /\ UNCHANGED <<innerVars, sessVars, daemonVars, persistVars, fileBpVars>>

\* ---------------------------------------------------------------- CDP breakpoints per file
\* CDPClient.set_breakpoints with several files: _breakpoint_ids per file and
\* the breakpoints the inspector holds, each [id, file, line].
LineLists == {<<>>, <<1>>, <<2>>, <<1, 2>>}
RECURSIVE Concat(_, _)
Concat(tab, fs) ==
    IF fs = {} THEN <<>>
    ELSE LET f == CHOOSE x \in fs : TRUE IN tab[f] \o Concat(tab, fs \ {f})

\* A removal loop that runs over the ids of every file.
AllIds(tab, f) == Concat(tab, DOMAIN tab)

\* `for bp_id in self._breakpoint_ids.get(abs_path, [])`
IdsOf(tab, f) == tab[f]

\* The breakpointId the inspector gives a new breakpoint.
NewBreakpointId ==
    LET used == {b.id : b \in file_installed} \cup {0}
                    \cup UNION {Range(file_bp_ids[f]) : f \in Files} \cup Range(fOld)
    IN 1 + CHOOSE x \in used : \A y \in used : y <= x

\* set_breakpoints(f, lines) begins: the ids to remove are those of f.
SetBreakpoints(f, lines) ==
    /\ fPc = "idle"
    /\ fCalls < MaxBpCalls
    /\ fCalls' = fCalls + 1
    /\ fFile' = f
    /\ fLines' = lines
    /\ fOld' = IdsOf(file_bp_ids, f)
    /\ fI' = 1
    /\ fPc' = "remove"
    /\ UNCHANGED <<file_bp_ids, file_installed>>
    /\ UNCHANGED <<innerVars, sessVars, daemonVars, persistVars, tableVars>>

\* One Debugger.removeBreakpoint returns (its failure is swallowed); after
\* the last one `self._breakpoint_ids[abs_path] = []`.
RemoveStep(ok) ==
    /\ fPc = "remove"
    /\ IF fI <= Len(fOld)
       THEN /\ file_installed' = IF ok THEN {b \in file_installed : b.id # fOld[fI]}
                                 ELSE file_installed
            /\ fI' = fI + 1
            /\ UNCHANGED <<file_bp_ids, fPc>>
       ELSE /\ ok
            /\ file_bp_ids' = [file_bp_ids EXCEPT ![fFile] = <<>>]
            /\ fI' = 1
            /\ fPc' = IF fLines = <<>> THEN "idle" ELSE "add"
            /\ UNCHANGED file_installed
    /\ UNCHANGED <<fFile, fLines, fOld, fCalls>>
    /\ UNCHANGED <<innerVars, sessVars, daemonVars, persistVars, tableVars>>

\* One Debugger.setBreakpointByUrl for file_url and the next line returns:
\* the new id is appended, or the failure is reported as unverified.  The
\* inspector refuses a second breakpoint at a location it holds one at.
AddStep(ok) ==
    /\ fPc = "add"
    /\ ok => ~\E b \in file_installed : b.file = fFile /\ b.line = fLines[fI]
    /\ IF ok
       THEN /\ file_installed' = file_installed \cup
                    {[id |-> NewBreakpointId, file |-> fFile, line |-> fLines[fI]]}
            /\ file_bp_ids' = [file_bp_ids EXCEPT ![fFile] = Append(@, NewBreakpointId)]
       ELSE UNCHANGED <<file_bp_ids, file_installed>>
    /\ fI' = fI + 1
    /\ fPc' = IF fI = Len(fLines) THEN "idle" ELSE "add"
    /\ UNCHANGED <<fFile, fLines, fOld, fCalls>>
    /\ UNCHANGED <<innerVars, sessVars, daemonVars, persistVars, tableVars>>

\* CDPClient.set_breakpoints called for one file or another.
NextFiles ==
    \/ \E f \in Files, lines \in LineLists : SetBreakpoints(f, lines)
    \/ \E ok \in BOOLEAN : RemoveStep(ok)
    \/ \E ok \in BOOLEAN : AddStep(ok)

SpecFiles == Init /\ [][NextFiles]_vars

\* The CDP client's tables under pauses and inspection calls.
NextTables ==
    \/ \E cfs \in FrameLists, r \in Reasons : Paused(cfs, r)
    \/ StackTrace
    \/ \E frame_id \in -1..2 : Scopes(frame_id)
    \/ \E ref \in 0..MaxRef : Variables(ref)
    \/ \E ok \in BOOLEAN, q \in ChildLists : VariablesReturn(ok, q)

SpecTables == Init /\ [][NextTables]_vars

\* A persisted session used by one process after the other.
NextPersist ==
    \/ \E prog \in Programs, l \in LanguageArgs, ok, written \in BOOLEAN :
            PersistStart(prog, l, ok, written)
    \/ \E f \in Files, l \in Lines, ok, written \in BOOLEAN : PersistAdd(f, l, ok, written)
    \/ \E removed \in BOOLEAN : PersistStop(removed)
    \/ \E l \in {"none"} \cup Languages : Restore(l)

SpecPersist == Init /\ [][NextPersist]_vars

\* ---------------------------------------------------------------- properties
ResumeCalls == {t \in Tasks : op[t] \in ResumeOps}
Finished(t) == pc[t] = "idle" /\ op[t] # "none"
Expected(i) ==
    IF delivered[i] = "ok" THEN [st |-> "result", val |-> BodyOf(i), sets |-> 1]
    ELSE [st |-> "error", val |-> MsgOf(i), sets |-> 1]

\* C1: with unique ids and every response answering a request that has been
\* sent, every response the reader has read has completed the future of its
\* request (result = the response's body, error = the backend's message), and
\* a caller that has returned has returned exactly that.
C1_ResponseReachesCaller ==
    /\ \A i \in Ids :
          (i > LaunchIds /\ delivered[i] # "none") => fut[i] = Expected(i)
    /\ \A t \in Tasks :
          (Finished(t) /\ op[t] = "request" /\ delivered[rid[t]] # "none")
              => out[t] = OutOfFut(Expected(rid[t]))

\* C2: the step in which the reader observes the end of the stream leaves the
\* pending table empty and every slot that was pending and not done failed
\* with the connection-lost error; such a slot stays that way, and the caller
\* waiting on it is resumed with the connection-lost error.
C2_EofFailsPending ==
    [][ /\ (reader = "running" /\ reader' = "ended")
            => /\ pending' = {}
               /\ \A i \in pending : ~Done(fut[i]) => fut'[i].st = "connlost"
        /\ \A i \in Ids : fut[i].st = "connlost" => fut'[i] = fut[i]
        /\ \A t \in Tasks :
              (pc[t] = "await" /\ fut[rid[t]].st = "connlost" /\ pc'[t] # "await")
                  => (pc'[t] = "idle" /\ out'[t] = Out("connlost", 0))
      ]_vars

\* C2 witness: the stream ended with two or more requests pending, and a
\* caller has been resumed with the connection-lost error.
C2_Witness ==
    /\ reader = "ended"
    /\ pending = {}
    /\ Cardinality({i \in Ids : fut[i].st = "connlost"}) >= 2
    /\ \E t \in Tasks : Finished(t) /\ out[t] = Out("connlost", 0)

\* C3: the step in which the reader observes the end of the stream fulfils
\* the terminate signal of every resume/step call waiting in the race.
C3_EofFulfilsTerminate ==
    [][ (reader = "running" /\ reader' = "ended")
            => \A t \in Tasks : pc[t] = "race" => termFut'[myTerm[t]].st = "result"
      ]_vars

EndedOneWay ==
    \A t \in ResumeCalls :
        Finished(t) =>
            LET o == out[t]
                s == stopFut[myStop[t]]
                m == termFut[myTerm[t]]
                own == {fut[rid[t]]} \cup
                       (IF op[t] = "resume1" THEN {fut[launchId]} ELSE {})
            IN CASE o.k = "stop" -> s.st = "result" /\ o.v = s.val
                 [] o.k = "terminated" -> Done(m)
                 [] o.k = "timeout" -> s.st = "cancelled" /\ m.st = "cancelled"
                 [] o.k = "error" -> \E f \in own : f.st = "error" /\ o.v = f.val
                 [] o.k = "connlost" -> \E f \in own : f.st = "connlost"
                 [] o.k = "launch_timeout" ->
                        op[t] = "resume1" /\ fut[launchId].st = "cancelled"
                 [] o.k = "cancelled" -> s.st = "cancelled"
                 [] o.k = "sendfail" -> fut[rid[t]].st = "none" /\ rid[t] \notin pending
                 [] OTHER -> FALSE

C5_SignalsNullAfterReturn ==
    LET returned == \E t \in ResumeCalls : Finished(t) /\ out[t].k \in {"stop", "terminated"}
        noneInProgress == \A t \in ResumeCalls : Finished(t)
    IN (returned /\ noneInProgress) => (stopped_event = 0 /\ terminated_event = 0)

\* C6: once disconnect() has cleared the pending table, no caller is
\* suspended on a future that is not in the table and not done.
C6_NoSlotLeaked ==
    disc = "done" =>
        \A t \in Tasks : (pc[t] = "await" /\ rid[t] \notin pending) => Done(fut[rid[t]])

\* C7: no future (request slot, stop, terminate or initialized signal) is
\* completed more than once.
C7_CompletedAtMostOnce ==
    /\ \A i \in Ids : fut[i].sets <= 1
    /\ \A g \in Gens : stopFut[g].sets <= 1 /\ termFut[g].sets <= 1
    /\ initFut.sets <= 1

\* C7 witness: an ill-formed message has been sent, the reader has met a
\* future that was done already, a race has timed out and cancelled both of
\* its signals, and the connection has been lost.
C7_Witness ==
    /\ guarded
    /\ strays > 0
    /\ \E g \in Gens : stopFut[g].st = "cancelled" /\ termFut[g].st = "cancelled"
    /\ reader = "ended"

\* C8: at most one resume/step call is in progress.
C8_OneResumeOutstanding ==
    Cardinality({t \in ResumeCalls : ~Finished(t)}) <= 1

\* C9: with the commands issued one after the other, a stop or terminate
\* signal is only ever fulfilled by an event that the resume/step it was
\* created for has caused.
C9_NoStaleFulfilment ==
    (\A t \in Tasks \ {1} : op[t] = "none") =>
        \A g \in Gens :
            /\ stopFut[g].st = "result" => stopFut[g].val = g
            /\ termFut[g].st = "result" => termFut[g].val = g

\* C10: when add_breakpoint has returned something other than an Error
\* string, the lines the backend holds breakpoints at are the recorded lines.
C10_BackendEqualsRecorded ==
    (bpPc = "idle" /\ bpOut \in {"verified", "pending"})
        => InstalledLines = Range(breakpoints)

\* C11: when add_breakpoint(f, L) is called again right after a call with the
\* same (f, L) that reported the breakpoint verified, then once the second
\* call has returned the recorded line sequence and the number of breakpoints
\* the backend holds at each line are what they were when it began.
C11_AddBreakpointIdempotent ==
    (bpPc = "idle" /\ bpCall.repeat)
        => /\ breakpoints = bpCall.seq0
           /\ \A l \in Lines : Held(l) = bpCall.held0[l]

\* A command has returned (or raised).
Returned(cmd) == sPc = "idle" /\ sCmd = cmd /\ sRet # "none"

\* C12: in every state every live client (spawned, not disconnected) is the
\* one the session holds, so there is at most one: start never leaves an
\* earlier client's subprocess running beside the new one.
C12_AtMostOneLiveClient ==
    \A c \in Clients : Live(c) => c = client

\* C13: a start on an idle session that has failed has returned an Error
\* string and has left the session idle: no client handle is retained.
C13_FailedStartLeavesIdle ==
    (Returned("start") /\ sRet # "ok" /\ sBefore = 0)
        => (sRet = "error" /\ client = 0)

\* C14: no session command ends by raising: each returns a string.
C14_NoExceptionEscapes ==
    sRet # "raise"

\* C15: after any probe the session is idle and no client that probe created
\* is live.
C15_ProbeAlwaysStops ==
    Returned("probe") => (client = 0 /\ \A c \in made : ~Live(c))

\* What DebugSession.resume / step makes of the outcome of the client call:
\* a description of the stop, the "no breakpoint hit within 30 s" text for a
\* TimeoutError, an "Error ..." text for any other Exception; CancelledError
\* is no Exception and passes through.
ResumeText(o) ==
    CASE o.k \in {"stop", "terminated"} -> "Stopped"
      [] o.k \in {"timeout", "launch_timeout"} -> "NoBreakpoint"
      [] o.k = "cancelled" -> "raise"
      [] OTHER -> "Error"

\* C16: a resume/step that began after one had returned the terminated body
\* returns an Error string.
C16_ErrorAfterTermination ==
    \A t \in ResumeCalls :
        (Finished(t) /\ began[t].exit) => ResumeText(out[t]) = "Error"

\* C17: an inspect that began after the reader had seen the connection end
\* is never left waiting on a future for its request.
C17_InspectAfterLoss ==
    \A t \in Tasks :
        (op[t] = "request" /\ began[t].lost /\ pc[t] = "await") => Done(fut[rid[t]])

\* C18: a connection whose request named an action that is not in the
\* dispatch table has, once closed, been answered by one error reply.
C18_UnknownActionIsError ==
    \A c \in Conns :
        (conn[c] = "closed" /\ req[c] = "unknown") => replies[c] = <<"error">>

\* C19: a connection whose request was not JSON or whose handler raised has,
\* once closed, been answered by one error reply, and shutdown is only ever
\* triggered by a stop request.
C19_FailureIsError ==
    /\ \A c \in Conns :
          (conn[c] = "closed" /\ (req[c] = "badjson" \/ raised[c]))
              => replies[c] = <<"error">>
    /\ shutdown_event => \E c \in Conns : req[c] = "stop"

\* C20: a connection on which a request line was received and which is
\* closed has been written exactly one reply line.
C20_OneReplyThenClose ==
    \A c \in Conns :
        (conn[c] = "closed" /\ req[c] \in RequestLines) => Len(replies[c]) = 1

\* C21: the session is only stopped after the stop request has been
\* answered, it is stopped at most once, and once shutdown has been
\* signalled the daemon terminates.
C21_StopThenTerminate ==
    /\ [](stops <= 1)
    /\ [](stops = 1 => \E c \in Conns : req[c] = "stop" /\ replies[c] = <<"result">>)
    /\ (shutdown_event ~> main = "exited")

\* C22: the readiness line is printed only after start has succeeded and
\* no connection is served before it; when start has returned an Error
\* string no connection is ever accepted, and the daemon exits with status 1
\* having printed the error line only.
C22_ReadyAfterStart ==
    /\ (\E k \in 1..Len(stdout) : stdout[k] = "ready") => started = "ok"
    /\ (\E c \in Conns : conn[c] # "none") => stdout = <<"ready">>
    /\ started = "error" =>
          /\ \A c \in Conns : conn[c] = "none"
          /\ main = "exited" /\ exitCode = 1 /\ stdout = <<"error">>

\* A command is being dispatched in a daemon that has printed its readiness.
C22_Witness ==
    /\ started = "ok" /\ stdout = <<"ready">>
    /\ \E c \in Conns : conn[c] = "dispatch"

\* C23: a session restored from the file without a language argument has
\* the language, program and breakpoints the file was written from, each
\* file's lines in the same order.
C23_RoundTrip ==
    pOp = "restore" => <<language, program, bpMap>> = saved

\* A restored session with two files, one of them with lines out of order.
C23_Witness ==
    /\ pOp = "restore"
    /\ Len(bpMap) = 2
    /\ \E k \in 1..Len(bpMap) : bpMap[k].lines = <<2, 1>>

\* C24: a race that resumes with its stop signal fulfilled returns that stop
\* body, also when its terminate signal is fulfilled as well; and a signal
\* that is still pending when the race resumes is cancelled.
C24_StopWins ==
    [][ \A t \in Tasks :
          (pc[t] = "race" /\ pc'[t] # "race") =>
              /\ stopFut[myStop[t]].st = "result"
                    => out'[t] = Out("stop", stopFut[myStop[t]].val)
              /\ ~Done(stopFut[myStop[t]]) => stopFut'[myStop[t]].st = "cancelled"
              /\ ~Done(termFut[myTerm[t]]) => termFut'[myTerm[t]].st = "cancelled"
      ]_vars

\* C25: the step in which the reader reads a message (a response, failed or
\* not, or an event, whatever its payload) leaves the reader running and
\* changes at most the one request slot concerned.
C25_ReaderSurvivesMessages ==
    [][ (chan # <<>> /\ chan' = Tail(chan)) =>
            /\ reader' = "running"
            /\ Cardinality({i \in Ids : fut'[i] # fut[i]}) <= 1
      ]_vars

\* C26: configurationDone is sent by a continue_ only while the DAP client is
\* not configured, which it is from then on (so once, by the first continue_,
\* every later one sending `continue`); and that first continue_ enters the
\* race only when the launch request (id 2) has been answered.
C26_ConfigurationDoneOnce ==
    [][ /\ configured => configured'
        /\ \A t \in Tasks :
              (pc[t] = "idle" /\ rid'[t] # rid[t] /\ op'[t] = "resume1")
                  => (~configured /\ configured')
        /\ \A t \in Tasks :
              (op[t] = "resume1" /\ pc[t] # "race" /\ pc'[t] = "race")
                  => Done(fut[2])
      ]_vars

C28_CancelTouchesNothing ==
    [][ /\ (reader = "running" /\ reader' = "cancelled")
            => /\ fut' = fut /\ pending' = pending
               /\ stopFut' = stopFut /\ termFut' = termFut
        /\ reader = "cancelled" => (reader' = "cancelled" /\ Len(chan') >= Len(chan))
        /\ \A i \in Ids :
              (fut[i].st # "connlost" /\ fut'[i].st = "connlost")
                  => (reader = "running" /\ reader' = "ended")
      ]_vars

\* C28 witness: the reader has been cancelled with a request pending whose
\* caller is suspended on its future, and a response is left unread.
C28_Witness ==
    /\ reader = "cancelled"
    /\ chan # <<>>
    /\ \E t \in Tasks : pc[t] = "await" /\ rid[t] \in pending /\ ~Done(fut[rid[t]])

\* C30: a resume/step call for which the client has returned the terminated
\* body is not answered with a "Stopped (...) at file:line" description.
C30_TerminationHasNoLocation ==
    \A t \in Tasks :
        (op[t] \in ResumeOps /\ pc[t] = "idle" /\ out[t].k = "terminated")
            => described[t].text # "stopped_at"

\* C29: when start, add_breakpoint or stop has returned, the file, if it
\* exists, holds the session's fields as they are in memory, and after stop
\* it does not exist.
C29_FileEqualsMemory ==
    /\ (pOp \in {"start", "add"} /\ pfile # Absent)
          => pfile = Dump(language, program, bpMap)
    /\ pOp = "stop" => pfile = Absent

\* C31: the references an operation returns are 0 or, in the order minted,
\* increasing and not below the counter before it; a table entry is never
\* changed or removed; the table holds exactly the references minted so far,
\* all positive; and variables(0) finds no object and returns no children.
C31_ReferencesMonotonic ==
    /\ [][ /\ \A k \in 1..Len(lastOp'.ret) :
                 (lastOp' # lastOp /\ lastOp'.name \in {"scopes", "variables"}
                     /\ lastOp'.ret[k] # 0)
                     => /\ lastOp'.ret[k] >= next_var_ref
                        /\ lastOp'.ret[k] < next_var_ref'
                        /\ \A j \in 1..(k - 1) : lastOp'.ret[j] < lastOp'.ret[k]
            /\ next_var_ref' >= next_var_ref
            /\ \A r \in 1..MaxRef : object_ids[r] # "none" => object_ids'[r] = object_ids[r]
          ]_vars
    /\ [](\A r \in 1..MaxRef : object_ids[r] # "none" <=> r < next_var_ref)
    /\ [](next_var_ref >= 1 /\ GetObjectId(0) = "none")
    /\ [][Variables(0) => (lastOp'.ret = <<>> /\ lastOp'.sent = 0 /\ vRef' = 0)]_vars

\* C31 witness: the same object has been stored twice under two references,
\* a scope without objectId got reference 0, and the table is full.
C31_Witness ==
    /\ next_var_ref = MaxRef + 1
    /\ object_ids[1] = object_ids[3]
    /\ lastOp.name = "variables" /\ lastOp.ret = <<0, MaxRef>>

\* C32: stack_trace sends nothing, changes nothing and returns the projection
\* of the call frames of the last Debugger.paused event; the raw cache holds
\* those call frames and the projected list their projection in every
\* state, frame id i at index i; and scopes(i) answers with the scopes of
\* call frame i of that event.
C32_FramesCachedTogether ==
    /\ [](/\ last_call_frames = pausedWith
           /\ last_dap_frames = ConvertFrames(pausedWith)
           /\ \A k \in 1..Len(last_dap_frames) : last_dap_frames[k].id = k - 1)
    /\ [][ /\ StackTrace
               => /\ lastOp'.ret = ConvertFrames(pausedWith) /\ lastOp'.sent = 0
                  /\ UNCHANGED <<last_call_frames, last_dap_frames, next_var_ref, object_ids>>
           /\ \A i \in 0..1 :
                 (Scopes(i) /\ i < Len(pausedWith))
                     => /\ Len(lastOp'.ret) = Len(pausedWith[i + 1].scopes)
                        /\ \A k \in 1..Len(lastOp'.ret) :
                              lastOp'.ret[k] # 0
                                  => object_ids'[lastOp'.ret[k]] = pausedWith[i + 1].scopes[k]
         ]_vars

\* C32 witness: stack_trace has returned two frames, and references have
\* been minted from an earlier pause.
C32_Witness ==
    /\ lastOp.name = "stack_trace"
    /\ Len(lastOp.ret) = 2
    /\ next_var_ref > 2

\* C35: the stop body built for a Debugger.paused event has threadId 1 and
\* the reason breakpoint for breakpoint, exception for exception, step for
\* other and for a missing reason, and the event's reason otherwise.
C35_ReasonMapping ==
    lastBody.from # "none" =>
        /\ lastBody.threadId = 1
        /\ lastBody.from = "breakpoint" => lastBody.reason = "breakpoint"
        /\ lastBody.from = "exception" => lastBody.reason = "exception"
        /\ lastBody.from \in {"other", "missing"} => lastBody.reason = "step"
        /\ lastBody.from \notin {"breakpoint", "exception", "other", "missing"}
              => lastBody.reason = lastBody.from

\* C35 witness: an event without reason and one with a reason outside the
\* table have been mapped.
C35_Witness ==
    /\ lastBody.from = "debugCommand"
    /\ lastBody.reason = "debugCommand"
    /\ lastOp.name = "paused"

\* C36: the projected frames are as many as the call frames of the event and
\* in their order, each with its index as id, its line and column one more
\* than the call frame's, and its function name, "(anonymous)" standing for
\* a missing or empty one.
C36_FrameProjection ==
    /\ Len(last_dap_frames) = Len(pausedWith)
    /\ \A k \in 1..Len(pausedWith) :
          /\ last_dap_frames[k].id = k - 1
          /\ last_dap_frames[k].line = pausedWith[k].line + 1
          /\ last_dap_frames[k].column = pausedWith[k].col + 1
          /\ last_dap_frames[k].name =
                IF pausedWith[k].fn = "missing" \/ pausedWith[k].fn = ""
                THEN "(anonymous)" ELSE pausedWith[k].fn

\* C36 witness: two frames, one named and one with an empty function name.
C36_Witness ==
    /\ Len(last_dap_frames) = 2
    /\ last_dap_frames[1].name = "f"
    /\ pausedWith[2].fn = ""
    /\ last_dap_frames[2].name = "(anonymous)"

\* C33: no step of set_breakpoints(f, lines) changes the recorded id list of
\* another file or the breakpoints the backend holds for another file.
C33_OtherFilesUntouched ==
    [][ \A g \in Files :
          g # fFile' =>
              /\ file_bp_ids'[g] = file_bp_ids[g]
              /\ {b \in file_installed' : b.file = g} = {b \in file_installed : b.file = g}
      ]_vars

\* C33 witness: set_breakpoints for one file has removed and re-added that
\* file's breakpoints while the other file holds breakpoints of its own.
C33_Witness ==
    /\ fPc = "idle" /\ fCalls = 3
    /\ fOld # <<>>
    /\ file_bp_ids[fFile] # <<>>
    /\ \E g \in Files \ {fFile} :
          /\ Len(file_bp_ids[g]) = 2
          /\ Range(file_bp_ids[g]) = {b.id : b \in {x \in file_installed : x.file = g}}

\* C34: when disconnect() of the DAP client has ended, the adapter is dead,
\* the reader task is finished and the pending table is empty.
C34_DisconnectLeavesNothing ==
    (kind = "dap" /\ disc \in {"done", "raised"})
        => (~alive /\ reader # "running" /\ pending = {})

\* C37: a stop or exit event of the resume/step a call has sent, read by the
\* reader before the call's race returns (be it before the response to the
\* request has been processed), makes the race return with that stop or
\* termination and not with a timeout.
C37_EventEndsRace ==
    [][\A t \in Tasks :
          (pc[t] = "race" /\ pc'[t] = "idle" /\ gen[t] \in seen)
              => out'[t].k \in {"stop", "terminated"}]_vars

\* A race has returned for a call whose event was read before the response
\* to its request.
C37_Witness ==
    \E t \in Tasks :
        /\ op[t] \in {"resume", "resume1"} /\ pc[t] = "idle"
        /\ out[t].k \in {"stop", "terminated"}
        /\ gen[t] \in seen
        /\ reqGen[rid[t]] < 0

\* C38: launch() does not end in its timeout once the reader has read an
\* `initialized` event the adapter sent after start(), be it one read before
\* launch() had created _initialized_event.
C38_EarlyInitializedCounts ==
    [][(kind = "dap" /\ phase = "launching" /\ phase' = "failed")
          => ~(strays > 0 /\ \A k \in 1..Len(chan) : chan[k].ev # "initialized")]_vars

\* C39: when add_breakpoint has returned its Error string because the
\* backend failed setBreakpoints, the recorded lines of the file are what
\* they were when the call began.
C39_FailedAddChangesNothing ==
    (bpPc = "idle" /\ bpOut = "error") => breakpoints = bpCall.seq0

\* C40: after stop the session holds no client, and a command other than
\* start, probe and stop that found the session without a client has
\* returned the "no active debug session" Error string and left it so.
C40_IdleCommandsRefused ==
    /\ Returned("stop") => client = 0
    /\ (Returned("other") /\ sBefore = 0) => (sRet = "noactive" /\ client = 0)
====
